---- MODULE Spec2Model ----
(***************************************************************************)
(* A model of the songwalker-core audio engine: AudioEngine::render and    *)
(* the voices it drives (oscillator voice with ADSR envelope, sampler      *)
(* voice, composite voice group).                                          *)
(*                                                                         *)
(* Numbers.  The code computes in f64.  The model computes with exact      *)
(* rationals <<n, d>> (d = 0 stands for the f64 results of a division by   *)
(* zero: +inf when n > 0, -inf when n < 0, NaN when n = 0), and turns them *)
(* into sample counts with the saturating cast `as usize`.  Irrational     *)
(* pitch ratios are rounded to 1/1000.  Strings the code parses are        *)
(* sequences of one-character strings.                                     *)
(***************************************************************************)
EXTENDS Integers, Sequences, FiniteSets, TLC

VARIABLES
    pc,             \* position of the render call
    event_list,     \* the EventList passed to render
    bpm,            \* local bpm of render
    tuning_pitch,   \* local tuning_pitch of render
    cursor_samples, \* local cursor_samples
    scheduled,      \* local Vec<ScheduledNote>
    total_samples,  \* local total_samples
    output_len,     \* length of the local output buffer (<<>> before it exists)
    voices,         \* local Vec<ActiveVoice>
    next_note_idx,  \* local next_note_idx (0-based, as in the code)
    block_start,    \* local block_start
    block_end,      \* local block_end of the block being processed
    retired,        \* history: voices removed by retain, in removal order
    dropped,        \* history: indices of scheduled notes skipped at the voice cap
    wrapped,        \* history: an integer operation has wrapped (a build without
                    \* overflow checks; with them the operation panics)
    lens,           \* history of SpecLen: buffer length returned per end mode
    envelope,       \* SpecEnv: an Envelope driven by its caller (<<>>: none)
    voice,          \* SpecVoice: a Voice driven by its caller
    sampler_voice,  \* SpecSampler: a SamplerVoice driven by its caller
    group,          \* SpecGroup: an ActiveVoice::Composite driven by its caller
    composite,      \* SpecTrigger: a CompositeInstrument and a note to trigger
    engine,         \* SpecTwice: an AudioEngine's fields across render calls
    mixer,          \* SpecMixer: a Mixer driven by its caller
    effect,         \* SpecDelay, SpecDry: an effect driven sample by sample
    stereo,         \* SpecStereo: the locals of a render_stereo call
    osc,            \* SpecOsc: an Oscillator driven by its caller
    pcm,            \* SpecPcm: the samples of a render being converted to PCM
    compiler,       \* SpecCompile: the compiler's context while tracks are called
    log             \* history of the caller's calls on that object

vars == <<pc, event_list, bpm, tuning_pitch, cursor_samples, scheduled,
          total_samples, output_len, voices, next_note_idx, block_start,
          block_end, retired, dropped, wrapped, lens, envelope, voice,
          sampler_voice, group, composite, engine, mixer, effect, stereo,
          osc, pcm, compiler, log>>

\* the variables of render, and those of the objects driven on their own
render_vars == <<pc, event_list, bpm, tuning_pitch, cursor_samples, scheduled,
                 total_samples, output_len, voices, next_note_idx, block_start,
                 block_end, retired, dropped, wrapped, lens>>
first_units == <<envelope, voice, sampler_voice, group>>
later_units == <<composite, engine, mixer, effect, stereo>>
last_units == <<osc, pcm, compiler>>
units == <<first_units, later_units, last_units, log>>

----------------------------------------------------------------------------
(* Program constants and model bounds *)

\* AudioEngine.sample_rate, the constructor's argument
SampleRate == 100
\* AudioEngine::new: max_voices
MaxVoices == 64
\* render: block_size
BlockSize == 128
\* AudioEngine::new: bpm
DefaultBpm == 120
\* AudioEngine::new: tuning_pitch
DefaultTuning == 440
\* usize::MAX, scaled down to fit a 32-bit signed integer; every
\* finite sample count of the model is far below it
UsizeMax == 1048575
\* longest event list drawn from CorePool
MaxEvents == 2

\* vec![0.0_f64; n] panics with "capacity overflow" when n * 8 > isize::MAX
AllocMax == (UsizeMax \div 2) \div 8

----------------------------------------------------------------------------
(* Option values: <<>> is None, <<x>> is Some(x) *)

None == <<>>
Some(x) == <<x>>
IsSome(o) == o # <<>>
Unwrap(o) == o[1]
UnwrapOr(o, dflt) == IF o = <<>> THEN dflt ELSE o[1]

Min(a, b) == IF a <= b THEN a ELSE b
Max(a, b) == IF a >= b THEN a ELSE b
Abs(a) == IF a < 0 THEN -a ELSE a
SetMax(S) == CHOOSE x \in S : \A y \in S : y <= x

----------------------------------------------------------------------------
(* Exact rationals *)

\* (the remainder is bound as a value before the next step, and so are the
\* terms of a fraction before it is reduced: an operator argument is
\* evaluated again at each of its uses)
RECURSIVE Gcd(_, _)
Gcd(a, b) ==
    IF b = 0 THEN a ELSE CHOOSE g \in {Gcd(b, m) : m \in {a % b}} : TRUE

\* lowest terms of n/d, d > 0 after the sign is moved to n
Reduced(n, d) ==
    LET s == IF d < 0 THEN -1 ELSE 1
    IN  CHOOSE q \in {<<(s * n) \div g, (s * d) \div g>> : g \in {Gcd(Abs(n), Abs(d))}} : TRUE

\* normal form: positive denominator, lowest terms
RNorm(r) ==
    CHOOSE q \in {IF x[2] = 0 THEN x ELSE Reduced(x[1], x[2]) : x \in {r}} : TRUE
RInt(n) == <<n, 1>>
RAdd(a, b) == RNorm(<<a[1] * b[2] + b[1] * a[2], a[2] * b[2]>>)
RSub(a, b) == RNorm(<<a[1] * b[2] - b[1] * a[2], a[2] * b[2]>>)
RMul(a, b) == RNorm(<<a[1] * b[1], a[2] * b[2]>>)
RLess(a, b) == a[1] * b[2] < b[1] * a[2]
RLeq(a, b) == a[1] * b[2] <= b[1] * a[2]
RFloor(a) == a[1] \div a[2]
\* f64 remainder a % b for a >= 0, b > 0
RMod(a, b) == RSub(a, RMul(b, RInt(RFloor(<<a[1] * b[2], a[2] * b[1]>>))))

\* A faulty cast that rounds to the nearest integer, which C7_Truncation must
\* tell apart
AsUsizeNearest(r) ==
    IF r[2] = 0 THEN (IF r[1] > 0 THEN UsizeMax ELSE 0)
    ELSE IF (r[1] <= 0 /\ r[2] > 0) \/ (r[1] >= 0 /\ r[2] < 0) THEN 0
    ELSE Min((2 * Abs(r[1]) + Abs(r[2])) \div (2 * Abs(r[2])), UsizeMax)

\* `x as usize` for the f64 x = r[1]/r[2]: truncation toward zero, saturating
\* at 0 (negative, NaN, -inf) and at usize::MAX (+inf, too large)
AsUsize(r) ==
    IF r[2] = 0 THEN (IF r[1] > 0 THEN UsizeMax ELSE 0)
    ELSE IF (r[1] <= 0 /\ r[2] > 0) \/ (r[1] >= 0 /\ r[2] < 0) THEN 0
    ELSE Min(Abs(r[1]) \div Abs(r[2]), UsizeMax)

\* usize addition: the exact sum and whether it overflows
Overflows(a, b) == a > UsizeMax - b
WrapAdd(a, b) == IF Overflows(a, b) THEN a - (UsizeMax + 1 - b) ELSE a + b

----------------------------------------------------------------------------
(* Parsing *)

Digits == <<"0", "1", "2", "3", "4", "5", "6", "7", "8", "9">>
IsDigit(c) == \E i \in 1..10 : Digits[i] = c
DigitVal(c) == (CHOOSE i \in 1..10 : Digits[i] = c) - 1

RECURSIVE DigitsValue(_, _)
DigitsValue(s, acc) ==
    IF s = <<>> THEN acc ELSE DigitsValue(Tail(s), acc * 10 + DigitVal(Head(s)))

\* str::parse for a signed decimal integer: an optional sign and one or more
\* digits.  It stands for parse::<i32> and, on the strings of the model
\* (signs, digits and letters), for parse::<f64>.
ParseNumber(s) ==
    LET signed == s # <<>> /\ Head(s) \in {"-", "+"}
        body == IF signed THEN Tail(s) ELSE s
    IN  IF body = <<>> \/ \E i \in 1..Len(body) : ~IsDigit(body[i]) THEN None
        ELSE IF signed /\ Head(s) = "-" THEN Some(-DigitsValue(body, 0))
        ELSE Some(DigitsValue(body, 0))

\* i32::MAX
I32Max == 2147483647

\* i32 arithmetic of note_to_midi, (octave + 1) * 12 + semitone, as a build
\* without overflow checks computes it: each result is reduced modulo 2^32
\* into the i32 range (12 * m is 4 * (3 * m mod 2^30), taken as a signed
\* number)
WrapSucc(octave) == IF octave = I32Max THEN -I32Max - 1 ELSE octave + 1
WrapMul12(m) ==
    LET r == m % 1073741824
        t == (((r + r) % 1073741824) + r) % 1073741824
    IN  IF t >= 536870912 THEN 4 * (t - 1073741824) ELSE 4 * t
WrapPlus(x, semitone) ==
    IF semitone >= 0 /\ x > I32Max - semitone
    THEN ((x - I32Max - 1) + semitone) + (-I32Max - 1)
    ELSE IF semitone < 0 /\ x < (-I32Max - 1) - semitone
    THEN ((x + I32Max) + 1 + semitone) + I32Max + 1
    ELSE x + semitone

\* whether (octave + 1) * 12 + semitone leaves the i32 range at some step
MidiOverflows(octave, semitone) ==
    IF octave = I32Max THEN TRUE
    ELSE IF octave + 1 > I32Max \div 12 \/ octave + 1 < -(I32Max \div 12) THEN TRUE
    ELSE WrapPlus(12 * (octave + 1), semitone) # 12 * (octave + 1) + semitone

\* the name and the accidental of a pitch string: Some(<<semitone, idx>>),
\* idx being the number of characters before the octave, or None
PitchClass(note) ==
    IF note = <<>> THEN None
    ELSE IF Head(note) \notin {"C", "D", "E", "F", "G", "A", "B"} THEN None
    ELSE LET base_semitone ==
                 CASE Head(note) = "C" -> 0 [] Head(note) = "D" -> 2
                   [] Head(note) = "E" -> 4 [] Head(note) = "F" -> 5
                   [] Head(note) = "G" -> 7 [] Head(note) = "A" -> 9
                   [] Head(note) = "B" -> 11
             acc == IF Len(note) > 1 /\ note[2] = "#" THEN 1
                    ELSE IF Len(note) > 1 /\ note[2] = "b" THEN -1 ELSE 0
         IN  Some(<<base_semitone + acc, IF acc = 0 THEN 1 ELSE 2>>)

\* the octave of a pitch string: octave_str.parse::<i32>().ok()
PitchOctave(note) ==
    LET parsed == ParseNumber(SubSeq(note, Unwrap(PitchClass(note))[2] + 1, Len(note)))
    IN  IF parsed # None /\ Unwrap(parsed) <= I32Max THEN parsed ELSE None

\* note_to_midi, line 128: whether the arithmetic on the parsed octave
\* overflows (a panic in a build with overflow checks)
note_to_midi_overflows(note) ==
    /\ PitchClass(note) # None
    /\ PitchOctave(note) # None
    /\ MidiOverflows(Unwrap(PitchOctave(note)), Unwrap(PitchClass(note))[1])

\* note_to_midi (where line 128 overflows: the value of a build without
\* overflow checks)
note_to_midi(note) ==
    IF PitchClass(note) = None THEN None
    ELSE IF PitchOctave(note) = None THEN None
    ELSE Some(WrapPlus(WrapMul12(WrapSucc(Unwrap(PitchOctave(note)))),
                       Unwrap(PitchClass(note))[1]))

\* A frequency tuning_pitch * 2^((midi - 69) / 12) is kept in this form.
midi_to_frequency(midi, tuning) == [midi |-> midi, tuning |-> tuning]

\* note_to_frequency_with_tuning
note_to_frequency_with_tuning(note, tuning) ==
    LET m == note_to_midi(note)
    IN  IF m = None THEN None ELSE Some(midi_to_frequency(Unwrap(m), tuning))

\* note_to_midi_from_freq: 69 + 12 * log2(freq / tuning_pitch), rounded,
\* clamped to 0..127; 0/0 is NaN, which the cast to u8 turns into 0
note_to_midi_from_freq(freq, tuning) ==
    IF tuning = 0 THEN 0
    ELSE Max(0, Min(127, freq.midi))

----------------------------------------------------------------------------
(* Envelope (dsp/envelope.rs).  Times are seconds, as rationals. *)

\* (seconds * sample_rate) as usize
SecToSamples(sec) == AsUsize(<<sec[1] * SampleRate, sec[2]>>)

\* Envelope::new
EnvelopeNew ==
    [attack |-> <<1, 100>>, decay |-> <<1, 10>>, sustain |-> <<7, 10>>,
     release |-> <<3, 10>>, stage |-> "Idle", level |-> <<0, 1>>,
     stage_samples |-> 0, stage_counter |-> 0, start_level |-> <<0, 1>>]

\* gate_on with the attack started from 0 instead of the current level
gate_on_from_zero(e) ==
    [e EXCEPT !.stage = "Attack", !.stage_samples = SecToSamples(e.attack),
              !.stage_counter = 0, !.start_level = <<0, 1>>]

\* Envelope::gate_on
gate_on(e) ==
    [e EXCEPT !.stage = "Attack", !.stage_samples = SecToSamples(e.attack),
              !.stage_counter = 0, !.start_level = e.level]

\* gate_off without the early return of lines 61-63
gate_off_unguarded(e) ==
    [e EXCEPT !.stage = "Release", !.stage_samples = SecToSamples(e.release),
              !.stage_counter = 0, !.start_level = e.level]

\* Envelope::gate_off
gate_off(e) ==
    IF e.stage = "Idle" THEN e
    ELSE [e EXCEPT !.stage = "Release", !.stage_samples = SecToSamples(e.release),
                   !.stage_counter = 0, !.start_level = e.level]

\* Envelope::enter_decay
enter_decay(e) ==
    [e EXCEPT !.stage = "Decay", !.stage_samples = SecToSamples(e.decay),
              !.stage_counter = 0]

\* line 82 with the factor (1.0 - start_level) left out
AttackLevelUnscaled(start_level, t) == RAdd(start_level, t)

\* line 82: the level during the attack
AttackLevel(start_level, t) ==
    RAdd(start_level, RMul(RSub(<<1, 1>>, start_level), t))

\* line 96: the level during the decay
DecayLevel(sustain, t) == RSub(<<1, 1>>, RMul(RSub(<<1, 1>>, sustain), t))

\* line 113: the level during the release
ReleaseLevel(start_level, t) == RMul(start_level, RSub(<<1, 1>>, t))

\* the stage-end test with > in place of >=
StageEndsLate(e) == e.stage_counter + 1 > e.stage_samples

\* lines 83-84, 97-98, 114-115: stage_counter += 1, then the test
\* stage_counter >= stage_samples
StageEnds(e) == e.stage_counter + 1 >= e.stage_samples

\* Envelope::next_sample: the envelope after the call; the value returned is
\* its level
EnvNextSample(e) ==
    LET t == <<e.stage_counter, e.stage_samples>>
        one == <<1, 1>>
    IN  CASE e.stage = "Idle" -> [e EXCEPT !.level = <<0, 1>>]
          [] e.stage = "Attack" ->
                IF e.stage_samples = 0
                THEN enter_decay([e EXCEPT !.level = one])
                ELSE IF StageEnds(e)
                THEN enter_decay([e EXCEPT !.level = one])
                ELSE [e EXCEPT
                        !.level = AttackLevel(e.start_level, t),
                        !.stage_counter = e.stage_counter + 1]
          [] e.stage = "Decay" ->
                IF e.stage_samples = 0 \/ StageEnds(e)
                THEN [e EXCEPT !.level = e.sustain, !.stage = "Sustain",
                               !.stage_counter =
                                   IF e.stage_samples = 0 THEN e.stage_counter
                                   ELSE e.stage_counter + 1]
                ELSE [e EXCEPT
                        !.level = DecayLevel(e.sustain, t),
                        !.stage_counter = e.stage_counter + 1]
          [] e.stage = "Sustain" -> [e EXCEPT !.level = e.sustain]
          [] e.stage = "Release" ->
                IF e.stage_samples = 0 \/ StageEnds(e)
                THEN [e EXCEPT !.level = <<0, 1>>, !.stage = "Idle",
                               !.stage_counter =
                                   IF e.stage_samples = 0 THEN e.stage_counter
                                   ELSE e.stage_counter + 1]
                ELSE [e EXCEPT
                        !.level = ReleaseLevel(e.start_level, t),
                        !.stage_counter = e.stage_counter + 1]

\* Envelope::is_finished
EnvIsFinished(e) == e.stage = "Idle"

----------------------------------------------------------------------------
(* Voice (dsp/voice.rs) *)

\* parse_waveform
parse_waveform(s) ==
    CASE s = "sine" -> "Sine"
      [] s = "square" -> "Square"
      [] s \in {"sawtooth", "saw"} -> "Sawtooth"
      [] OTHER -> "Triangle"

\* Voice::with_config.  osc_n counts the oscillator's samples since its last
\* reset: the phase is osc_n * phase_inc modulo 1.
VoiceWithConfig(config) ==
    [kind |-> "Oscillator",
     waveform |-> parse_waveform(config.waveform),
     detune |-> UnwrapOr(config.detune, 0),
     frequency |-> midi_to_frequency(69, DefaultTuning),
     osc_n |-> 0,
     envelope |-> [EnvelopeNew EXCEPT
                     !.attack = UnwrapOr(config.attack, @),
                     !.decay = UnwrapOr(config.decay, @),
                     !.sustain = UnwrapOr(config.sustain, @),
                     !.release = UnwrapOr(config.release, @)],
     velocity |-> <<1, 1>>,
     release_sample |-> UsizeMax,
     finished |-> FALSE]

\* note_on without `self.finished = false`
VoiceNoteOnKeepsFinished(v, frequency, velocity) ==
    [v EXCEPT !.frequency = frequency, !.osc_n = 0, !.velocity = velocity,
              !.envelope = gate_on(v.envelope)]

\* Voice::note_on
VoiceNoteOn(v, frequency, velocity) ==
    [v EXCEPT !.frequency = frequency, !.osc_n = 0, !.velocity = velocity,
              !.finished = FALSE, !.envelope = gate_on(v.envelope)]

\* Voice::note_off
VoiceNoteOff(v) == [v EXCEPT !.envelope = gate_off(v.envelope)]

\* Voice::next_sample: the voice after the call
VoiceNextSample(v) ==
    IF v.finished THEN v
    ELSE LET env == EnvNextSample(v.envelope)
         IN  [v EXCEPT !.osc_n = v.osc_n + 1, !.envelope = env,
                       !.finished = EnvIsFinished(env)]

\* Whether the oscillator's sample number n (from 0) differs from 0.  At
\* phase 0 the sine, the PolyBLEP square and the PolyBLEP sawtooth give 0 and
\* the triangle gives -1; a later phase is taken not to be a zero of the
\* waveform (the notes of the model have a non-zero frequency, or are
\* triangles, which stay at -1 at frequency 0).
OscSounds(waveform, n) == n > 0 \/ waveform = "Triangle"

\* Whether the value returned by Voice::next_sample on v (osc * env *
\* velocity) differs from 0
VoiceSampleSounds(v) ==
    /\ ~v.finished
    /\ OscSounds(v.waveform, v.osc_n)
    /\ EnvNextSample(v.envelope).level[1] # 0
    /\ v.velocity[1] # 0

\* Voice::is_finished
VoiceIsFinished(v) == v.finished

----------------------------------------------------------------------------
(* Sampler (dsp/sampler.rs).  A zone's buffer is kept as its length; its     *)
(* samples are taken to differ from 0.                                      *)

\* LoadedZone::contains_note
contains_note(z, midi_note) ==
    midi_note >= z.key_range_low /\ midi_note <= z.key_range_high

\* Sampler::find_zone: Some(first zone containing the note) or None
find_zone(sampler, midi_note) ==
    LET hits == {i \in 1..Len(sampler.zones) : contains_note(sampler.zones[i], midi_note)}
    IN  IF hits = {} THEN None
        ELSE Some(sampler.zones[CHOOSE i \in hits : \A j \in hits : i <= j])

RECURSIVE Pow2(_)
Pow2(k) == IF k = 0 THEN 1 ELSE 2 * Pow2(k - 1)

\* 2^(k/12) for k in 0..11, in thousandths
SemitoneRatio == <<1000, 1059, 1122, 1189, 1260, 1335, 1414, 1498, 1587, 1682, 1782, 1888>>

\* 2^(k/12) for an integer k
Pow2Twelfths(k) ==
    LET oct == k \div 12
        frac == <<SemitoneRatio[(k % 12) + 1], 1000>>
    IN  IF oct >= 0 THEN RMul(RInt(Pow2(oct)), frac)
        ELSE RMul(<<1, Pow2(-oct)>>, frac)

\* preset::sample_playback_rate, for fine_tune_cents a multiple of 100
sample_playback_rate(target_midi_note, root_note, fine_tune_cents, tuning) ==
    RMul(Pow2Twelfths(target_midi_note - root_note - fine_tune_cents \div 100),
         <<tuning, 440>>)

\* SamplerEnvelope::new followed by note_on
SamplerEnvelopeOn ==
    [attack |-> <<5, 1000>>, decay |-> <<1, 10>>, sustain |-> <<1, 1>>,
     release |-> <<1, 10>>, state |-> "Attack", level |-> <<0, 1>>,
     samples_in_state |-> 0]

\* note_off that leaves the envelope as it is
SamplerEnvNoteOffIgnored(e) == e

\* SamplerEnvelope::note_off
SamplerEnvNoteOff(e) ==
    IF e.state # "Done" /\ e.state # "Idle"
    THEN [e EXCEPT !.state = "Release", !.samples_in_state = 0]
    ELSE e

\* SamplerEnvelope::next_sample: the envelope after the call
SamplerEnvNext(e) ==
    LET s == e.samples_in_state + 1
        one == <<1, 1>>
        n == CASE e.state = "Attack" -> SecToSamples(e.attack)
               [] e.state = "Decay" -> SecToSamples(e.decay)
               [] e.state = "Release" -> SecToSamples(e.release)
               [] OTHER -> 0
        t == <<s, n>>
    IN  CASE e.state = "Attack" ->
                IF n = 0 \/ s >= n
                THEN [e EXCEPT !.state = "Decay", !.samples_in_state = 0, !.level = one]
                ELSE [e EXCEPT !.samples_in_state = s, !.level = RNorm(t)]
          [] e.state = "Decay" ->
                IF n = 0 \/ s >= n
                THEN [e EXCEPT !.state = "Sustain", !.samples_in_state = 0,
                               !.level = e.sustain]
                ELSE [e EXCEPT !.samples_in_state = s,
                               !.level = RSub(one, RMul(t, RSub(one, e.sustain)))]
          [] e.state = "Sustain" ->
                [e EXCEPT !.samples_in_state = s, !.level = e.sustain]
          [] e.state = "Release" ->
                IF n = 0 \/ s >= n
                THEN [e EXCEPT !.state = "Done", !.samples_in_state = s,
                               !.level = <<0, 1>>]
                ELSE [e EXCEPT !.samples_in_state = s,
                               !.level = RMul(e.sustain, RSub(one, t))]
          [] OTHER -> [e EXCEPT !.samples_in_state = s]

\* the value SamplerEnvelope::next_sample returns, given the envelope before
\* the call: the new level, or 0.0 in Idle and Done
SamplerEnvValue(e) ==
    IF e.state \in {"Idle", "Done"} THEN <<0, 1>> ELSE SamplerEnvNext(e).level

\* SamplerEnvelope::is_done
SamplerEnvIsDone(e) == e.state = "Done"

\* SamplerVoice::new
SamplerVoiceNew(zone, midi_note, velocity, tuning) ==
    [kind |-> "Sampler",
     position |-> <<0, 1>>,
     playback_rate |-> sample_playback_rate(midi_note, zone.root_note,
                                            zone.fine_tune_cents, tuning),
     sample_rate_ratio |-> RNorm(<<zone.sample_rate, SampleRate>>),
     loop_start |-> zone.loop_start,
     loop_end |-> zone.loop_end,
     velocity |-> velocity,
     buffer_len |-> zone.buffer_len,
     finished |-> FALSE,
     released |-> FALSE,
     release_sample |-> UsizeMax,
     envelope |-> SamplerEnvelopeOn]

\* the read position after the advance, without the loop wrap
SamplerAdvanceNoWrap(v) ==
    RAdd(v.position, RMul(v.playback_rate, v.sample_rate_ratio))

\* the read position after the advance and the loop wrap of next_sample
SamplerAdvance(v) ==
    LET p == RAdd(v.position, RMul(v.playback_rate, v.sample_rate_ratio))
    IN  IF IsSome(v.loop_start) /\ IsSome(v.loop_end)
        THEN LET ls == RInt(Unwrap(v.loop_start))
                 le == RInt(Unwrap(v.loop_end))
             IN  IF ~v.released /\ RLeq(le, p) /\ RLess(ls, le)
                 THEN RAdd(ls, RMod(RSub(p, le), RSub(le, ls)))
                 ELSE p
        ELSE p

\* SamplerVoice::next_sample: the voice after the call
SamplerNextSample(v) ==
    IF v.finished THEN v
    ELSE LET p == SamplerAdvance(v)
         IN  IF RLeq(RInt(v.buffer_len), p)
             THEN [v EXCEPT !.position = p, !.finished = TRUE]
             ELSE LET env == SamplerEnvNext(v.envelope)
                  IN  [v EXCEPT !.position = p, !.envelope = env,
                                !.finished = SamplerEnvIsDone(env)]

\* Whether the value returned by SamplerVoice::next_sample on v differs
\* from 0 (read_interpolated gives 0.0 at a negative position and past the
\* buffer's last sample)
SamplerSampleSounds(v) ==
    /\ ~v.finished
    /\ RLess(SamplerAdvance(v), RInt(v.buffer_len))
    /\ RLeq(<<0, 1>>, v.position)
    /\ RFloor(v.position) < v.buffer_len
    /\ SamplerEnvValue(v.envelope)[1] # 0
    /\ v.velocity[1] # 0

\* every sample of a zone's buffer (the tests fill their buffers with 0.5)
BufferSample(i) == <<1, 2>>

\* SampleBuffer::read_interpolated on a buffer of len samples
read_interpolated(len, position) ==
    IF len = 0 \/ RLess(position, <<0, 1>>) THEN <<0, 1>>
    ELSE LET idx == RFloor(position)
             frac == RSub(position, RInt(idx))
         IN  IF idx >= len - 1
             THEN (IF idx < len THEN BufferSample(idx) ELSE <<0, 1>>)
             ELSE RAdd(RMul(BufferSample(idx), RSub(<<1, 1>>, frac)),
                       RMul(BufferSample(idx + 1), frac))

\* the value returned by SamplerVoice::next_sample on v
SamplerSampleValue(v) ==
    IF v.finished \/ RLeq(RInt(v.buffer_len), SamplerAdvance(v)) THEN <<0, 1>>
    ELSE RMul(RMul(read_interpolated(v.buffer_len, v.position),
                   SamplerEnvValue(v.envelope)),
              v.velocity)

\* SamplerVoice::note_off
SamplerNoteOff(v) ==
    [v EXCEPT !.released = TRUE, !.envelope = SamplerEnvNoteOff(v.envelope)]

\* SamplerVoice::is_finished
SamplerIsFinished(v) == v.finished

----------------------------------------------------------------------------
(* CompositeInstrument (dsp/composite.rs).  A CompositeVoice wraps a         *)
(* SamplerVoice, its only variant.                                          *)

RECURSIVE trigger_note(_, _, _, _)
RECURSIVE trigger_child(_, _, _, _)
RECURSIVE LayerFrom(_, _, _, _, _)
RECURSIVE SplitProbeFrom(_, _, _, _, _)

\* Split with split_points: the child index (0-based) before it is clamped,
\* the number of the last split point <= the note
SplitIndex(split_pts, midi_note) ==
    LET hits == {i \in 1..Len(split_pts) : midi_note >= split_pts[i]}
    IN  IF hits = {} THEN 0 ELSE SetMax(hits)

\* child_idx.min(self.children.len() - 1); with no children the subtraction
\* wraps to usize::MAX where overflow is not checked
ClampedSplitIndex(c, midi_note) ==
    Min(SplitIndex(Unwrap(c.split_points), midi_note),
        IF Len(c.children) = 0 THEN UsizeMax ELSE Len(c.children) - 1)

\* Layer mode: the voices of children i, i+1, ...
LayerFrom(c, i, midi_note, velocity, tuning) ==
    IF i > Len(c.children) THEN <<>>
    ELSE LET mix == IF IsSome(c.mix_levels) /\ i <= Len(Unwrap(c.mix_levels))
                    THEN Unwrap(c.mix_levels)[i] ELSE <<1, 1>>
         IN  trigger_child(c.children[i], midi_note, RMul(velocity, mix), tuning)
                 \o LayerFrom(c, i + 1, midi_note, velocity, tuning)

\* Split mode without split_points: the first child from i on that gives voices
SplitProbeFrom(c, i, midi_note, velocity, tuning) ==
    IF i > Len(c.children) THEN <<>>
    ELSE LET vs == trigger_child(c.children[i], midi_note, velocity, tuning)
         IN  IF vs # <<>> THEN vs
             ELSE SplitProbeFrom(c, i + 1, midi_note, velocity, tuning)

\* A faulty Chain that triggers every child, which C24_ChainFirstOnly must tell
\* apart
ChainEvery(c, midi_note, velocity, tuning) ==
    LayerFrom(c, 1, midi_note, velocity, tuning)

\* Chain mode: the first child only (children.first())
ChainFirst(c, midi_note, velocity, tuning) ==
    IF c.children # <<>>
    THEN trigger_child(c.children[1], midi_note, velocity, tuning)
    ELSE <<>>

\* CompositeInstrument::trigger_note
trigger_note(c, midi_note, velocity, tuning) ==
    CASE c.mode = "Layer" -> LayerFrom(c, 1, midi_note, velocity, tuning)
      [] c.mode = "Split" ->
            IF IsSome(c.split_points)
            THEN LET idx == ClampedSplitIndex(c, midi_note)
                 IN  IF idx < Len(c.children)
                     THEN trigger_child(c.children[idx + 1], midi_note, velocity, tuning)
                     ELSE <<>>
            ELSE SplitProbeFrom(c, 1, midi_note, velocity, tuning)
      [] c.mode = "Chain" -> ChainFirst(c, midi_note, velocity, tuning)

\* composite::trigger_child
trigger_child(child, midi_note, velocity, tuning) ==
    IF child.kind = "Sampler"
    THEN LET zone == find_zone(child.sampler, midi_note)
         IN  IF IsSome(zone)
             THEN <<SamplerVoiceNew(Unwrap(zone), midi_note, velocity, tuning)>>
             ELSE <<>>
    ELSE trigger_note(child.composite, midi_note, velocity, tuning)

\* Whether trigger_note evaluates `self.children.len() - 1` with no children
\* (a usize subtraction 0 - 1), in c or in a nested composite it triggers
RECURSIVE TriggerUnderflows(_, _, _, _)
TriggerUnderflows(c, midi_note, velocity, tuning) ==
    LET sub(i) == /\ c.children[i].kind = "Composite"
                  /\ TriggerUnderflows(c.children[i].composite, midi_note, velocity, tuning)
    IN  CASE c.mode = "Layer" -> \E i \in 1..Len(c.children) : sub(i)
          [] c.mode = "Split" ->
                IF IsSome(c.split_points)
                THEN \/ Len(c.children) = 0
                     \/ /\ ClampedSplitIndex(c, midi_note) < Len(c.children)
                        /\ sub(ClampedSplitIndex(c, midi_note) + 1)
                ELSE \E i \in 1..Len(c.children) :
                        /\ sub(i)
                        /\ \A j \in 1..(i - 1) :
                              trigger_child(c.children[j], midi_note, velocity, tuning) = <<>>
          [] c.mode = "Chain" -> c.children # <<>> /\ sub(1)

----------------------------------------------------------------------------
(* ActiveVoice (dsp/engine.rs): an Oscillator voice, a Sampler voice or a    *)
(* Composite group [kind, voices, release_sample].  History fields that the  *)
(* code does not have: g_note, the index in `scheduled` of the note the      *)
(* voice was made for; g_offs, the number of note_off calls it received;     *)
(* g_sound, the first output index at which it added a non-zero sample       *)
(* (-1: none yet); g_born, block_start of the block in which it was made;    *)
(* g_gone, block_end of the block after which it was removed (-1: still      *)
(* active); g_last, the last output index at which it added a non-zero       *)
(* sample (-1: none yet).                                                    *)

WithHistory(v, idx, born) ==
    v @@ [g_note |-> idx, g_offs |-> 0, g_sound |-> -1, g_born |-> born,
          g_gone |-> -1, g_last |-> -1]

\* ActiveVoice::note_off
ActiveNoteOff(v) ==
    LET w == CASE v.kind = "Oscillator" -> VoiceNoteOff(v)
               [] v.kind = "Sampler" -> SamplerNoteOff(v)
               [] v.kind = "Composite" ->
                     [v EXCEPT !.voices = [i \in 1..Len(v.voices) |->
                                              SamplerNoteOff(v.voices[i])]]
    IN  [w EXCEPT !.g_offs = v.g_offs + 1]

\* is_finished with any() in place of all() for a group
ActiveIsFinishedAny(v) ==
    CASE v.kind = "Oscillator" -> VoiceIsFinished(v)
      [] v.kind = "Sampler" -> SamplerIsFinished(v)
      [] v.kind = "Composite" ->
            \E i \in 1..Len(v.voices) : SamplerIsFinished(v.voices[i])

\* ActiveVoice::is_finished
ActiveIsFinished(v) ==
    CASE v.kind = "Oscillator" -> VoiceIsFinished(v)
      [] v.kind = "Sampler" -> SamplerIsFinished(v)
      [] v.kind = "Composite" ->
            \A i \in 1..Len(v.voices) : SamplerIsFinished(v.voices[i])

\* ActiveVoice::release_sample
ActiveReleaseSample(v) == v.release_sample

\* ActiveVoice::next_sample: the voice after the call
ActiveNextSample(v) ==
    CASE v.kind = "Oscillator" -> VoiceNextSample(v)
      [] v.kind = "Sampler" -> SamplerNextSample(v)
      [] v.kind = "Composite" ->
            [v EXCEPT !.voices = [i \in 1..Len(v.voices) |->
                                     SamplerNextSample(v.voices[i])]]

\* the sum of a sequence of values
RECURSIVE RSum(_)
RSum(q) == IF q = <<>> THEN <<0, 1>> ELSE RAdd(q[1], RSum(Tail(q)))

\* lines 41-44: the values the sub-voices of a group return, in order
GroupParts(v) == [i \in 1..Len(v.voices) |-> SamplerSampleValue(v.voices[i])]

\* the group's value with the sum divided by the number of sub-voices that
\* are not finished
GroupSampleValueOverLive(v) ==
    LET live == Cardinality({i \in 1..Len(v.voices) : ~v.voices[i].finished})
    IN  IF live > 1 THEN RMul(RSum(GroupParts(v)), <<1, live>>)
        ELSE RSum(GroupParts(v))

\* ActiveVoice::next_sample, lines 41-52: the value a group returns
GroupSampleValue(v) ==
    IF Len(v.voices) > 1 THEN RMul(RSum(GroupParts(v)), <<1, Len(v.voices)>>)
    ELSE RSum(GroupParts(v))

\* Whether the value ActiveVoice::next_sample returns on v differs from 0
\* (for a group: some sub-voice's sample does)
ActiveSampleSounds(v) ==
    CASE v.kind = "Oscillator" -> VoiceSampleSounds(v)
      [] v.kind = "Sampler" -> SamplerSampleSounds(v)
      [] v.kind = "Composite" ->
            \E i \in 1..Len(v.voices) : SamplerSampleSounds(v.voices[i])

\* one call of next_sample on v, its value added to the output at index idx
SampleStep(v, idx) ==
    LET w == ActiveNextSample(v)
    IN  IF ActiveSampleSounds(v)
        THEN [w EXCEPT !.g_sound = IF v.g_sound = -1 THEN idx ELSE @,
                       !.g_last = idx]
        ELSE w

\* render, lines 508-511: k calls of next_sample on v, the first of them
\* added to the output at index idx (the calls are split in halves to keep
\* the evaluation shallow)
RECURSIVE RunSamples(_, _, _)
RunSamples(v, k, idx) ==
    IF k = 0 THEN v
    ELSE IF k = 1 THEN SampleStep(v, idx)
    ELSE LET half == RunSamples(v, k \div 2, idx)
         IN  \* the test makes the first half be evaluated before the second
             IF half = half THEN RunSamples(half, k - k \div 2, idx + k \div 2)
             ELSE v

----------------------------------------------------------------------------
(* The engine's preset registry, filled before render (register_preset,      *)
(* register_composite) and read-only during it.                              *)

Zone(low, high, root, rate, ls, le, len) ==
    [key_range_low |-> low, key_range_high |-> high, root_note |-> root,
     fine_tune_cents |-> 0, sample_rate |-> rate, loop_start |-> ls,
     loop_end |-> le, buffer_len |-> len]

\* a short one-shot sample and a looped one
ShortZone == Zone(55, 65, 60, SampleRate, None, None, 40)
LoopZone == Zone(60, 72, 60, 2 * SampleRate, Some(10), Some(30), 60)

SamplerChild(zones) ==
    [kind |-> "Sampler", sampler |-> [zones |-> zones, is_drum_kit |-> FALSE]]

preset_registry ==
    [piano |-> [kind |-> "Sampler",
                sampler |-> [zones |-> <<ShortZone, LoopZone>>, is_drum_kit |-> FALSE]],
     layer |-> [kind |-> "Composite",
                composite |-> [mode |-> "Layer",
                               children |-> <<SamplerChild(<<ShortZone>>),
                                              SamplerChild(<<LoopZone>>)>>,
                               mix_levels |-> Some(<<<<7, 10>>>>),
                               split_points |-> None]],
     hollow |-> [kind |-> "Composite",
                 composite |-> [mode |-> "Layer", children |-> <<>>,
                                mix_levels |-> None, split_points |-> None]],
     void |-> [kind |-> "Composite",
               composite |-> [mode |-> "Split", children |-> <<>>,
                              mix_levels |-> None, split_points |-> Some(<<60>>)]]]

----------------------------------------------------------------------------
(* Event lists (compiler.rs: EventList, Event, EventKind, InstrumentConfig) *)

\* InstrumentConfig::default with two fields set
Instrument(release, preset_ref) ==
    [waveform |-> "triangle", attack |-> None, decay |-> None, sustain |-> None,
     release |-> release, detune |-> None, mixer |-> None, preset_ref |-> preset_ref]

NoteEvent(time, pitch, velocity, gate, instrument) ==
    [kind |-> "Note", time |-> time, pitch |-> pitch, velocity |-> velocity,
     gate |-> gate, instrument |-> instrument]

SetProperty(time, target, value) ==
    [kind |-> "SetProperty", time |-> time, target |-> target, value |-> value]

PitchC4 == <<"C", "4">>
PitchA4 == <<"A", "4">>

\* events that are combined freely
CorePool ==
    { SetProperty(<<0, 1>>, "track.beatsPerMinute", <<"9", "0">>),
      SetProperty(<<2, 1>>, "track.beatsPerMinute", <<"0">>),
      SetProperty(<<0, 1>>, "track.beatsPerMinute", <<"x", "9">>),
      SetProperty(<<0, 1>>, "track.tuningPitch", <<"4", "3", "2">>),
      NoteEvent(<<0, 1>>, PitchC4, 100, <<1, 1>>, Instrument(None, None)),
      NoteEvent(<<1, 1>>, PitchA4, 80, <<3, 2>>, Instrument(Some(<<2, 1>>), None)),
      NoteEvent(<<3, 1>>, PitchC4, 100, <<3, 1>>, Instrument(None, Some("piano"))),
      NoteEvent(<<0, 1>>, <<"H", "4">>, 100, <<1, 1>>, Instrument(None, None)) }

\* events that are tried alone and beside one core event
ExtraPool ==
    { NoteEvent(<<0, 1>>, PitchA4, 100, <<1, 1>>, Instrument(None, Some("missing"))),
      NoteEvent(<<0, 1>>, <<"C", "9">>, 100, <<1, 1>>, Instrument(None, Some("piano"))),
      NoteEvent(<<1, 2>>, <<"C", "5">>, 100, <<4, 1>>, Instrument(None, Some("piano"))),
      NoteEvent(<<0, 1>>, PitchC4, 100, <<1, 2>>, Instrument(None, Some("layer"))),
      NoteEvent(<<0, 1>>, PitchC4, 100, <<1, 1>>, Instrument(None, Some("hollow"))),
      NoteEvent(<<0, 1>>, PitchC4, 100, <<1, 1>>, Instrument(None, Some("void"))),
      NoteEvent(<<-1, 1>>, <<"B", "b", "3">>, 0, <<-1, 2>>, Instrument(Some(<<0, 1>>), None)),
      SetProperty(<<0, 1>>, "track.beatsPerMinute", <<"-", "6", "0">>),
      \* starts on a block boundary (sample 128 at the default tempo), with a
      \* gate too long for a usize sample count
      NoteEvent(<<64, 25>>, PitchA4, 100, <<1, 0>>, Instrument(None, None)),
      \* an octave for which (octave + 1) * 12 exceeds i32::MAX
      NoteEvent(<<0, 1>>, <<"C", "1", "7", "8", "9", "5", "6", "9", "7", "0">>, 100,
                <<1, 1>>, Instrument(None, None)),
      [kind |-> "TrackStart", time |-> <<0, 1>>] }

\* events that are repeated to fill the voice pool
ChordPool ==
    { NoteEvent(<<0, 1>>, PitchC4, 100, <<1, 1>>, Instrument(None, None)),
      NoteEvent(<<0, 1>>, PitchC4, 100, <<1, 2>>, Instrument(None, Some("layer"))) }

RECURSIVE SeqsUpTo(_, _)
SeqsUpTo(S, n) ==
    IF n = 0 THEN {<<>>}
    ELSE LET shorter == SeqsUpTo(S, n - 1)
         IN  shorter \cup {Append(q, e) : q \in shorter, e \in S}

Repeat(e, n) == [i \in 1..n |-> e]

EventSeqs ==
    SeqsUpTo(CorePool, MaxEvents)
    \cup {<<e>> : e \in ExtraPool}
    \cup {<<c, e>> : c \in CorePool, e \in ExtraPool}
    \cup {<<e, c>> : c \in CorePool, e \in ExtraPool}
    \cup {Repeat(e, n) \o late :
            e \in ChordPool, n \in {MaxVoices, MaxVoices + 2},
            late \in {<<>>, <<NoteEvent(<<6, 1>>, PitchA4, 100, <<1, 1>>, Instrument(None, None))>>}}

TotalBeats == {<<0, 1>>, <<5, 1>>}
EndModes == {"Gate", "Release", "Tail"}

----------------------------------------------------------------------------
(* AudioEngine::render (dsp/engine.rs), step by step *)

\* (beats * 60.0 / bpm * sample_rate) as usize
BeatsToSamples(beats, tempo) ==
    AsUsize(<<beats[1] * 60 * SampleRate, beats[2] * tempo>>)

\* A faulty scan in which the first parseable value wins, which C6_LastWins
\* must tell apart
ScanPropertyFirstWins(events, lo, hi, target, acc) ==
    LET hits == {i \in lo..hi : /\ events[i].kind = "SetProperty"
                                /\ events[i].target = target
                                /\ IsSome(ParseNumber(events[i].value))}
    IN  IF hits = {} THEN acc
        ELSE Unwrap(ParseNumber(events[CHOOSE i \in hits : \A j \in hits : i <= j].value))

\* render, lines 327-339: the value left in a local by the loop over the
\* events lo..hi, acc being its value before (the range is walked in halves,
\* left half first, to keep the evaluation shallow)
RECURSIVE ScanProperty(_, _, _, _, _)
ScanProperty(events, lo, hi, target, acc) ==
    IF lo > hi THEN acc
    ELSE IF lo = hi
    THEN LET evt == events[lo]
             parsed == IF evt.kind = "SetProperty" /\ evt.target = target
                       THEN ParseNumber(evt.value) ELSE None
         IN  UnwrapOr(parsed, acc)
    ELSE LET mid == (lo + hi) \div 2
             left == ScanProperty(events, lo, mid, target, acc)
         IN  \* the test makes the left half be evaluated before the right one
             IF left = left THEN ScanProperty(events, mid + 1, hi, target, left)
             ELSE acc

\* AudioEngine::new: the fields of a new engine (the registry is given by
\* the names registered in it)
AudioEngineNew ==
    [sample_rate |-> SampleRate, bpm |-> DefaultBpm, tuning_pitch |-> DefaultTuning,
     max_voices |-> MaxVoices, preset_registry |-> {"piano", "layer", "hollow", "void"}]

\* lines 325-339: the locals bpm and tuning_pitch start from the engine's
\* fields and take the values found in the events
ExtractBpmOn(eng, events) ==
    ScanProperty(events, 1, Len(events), "track.beatsPerMinute", eng.bpm)
ExtractTuningOn(eng, events) ==
    ScanProperty(events, 1, Len(events), "track.tuningPitch", eng.tuning_pitch)

ExtractBpm(events) == ExtractBpmOn(AudioEngineNew, events)
ExtractTuning(events) == ExtractTuningOn(AudioEngineNew, events)

\* render, lines 358-363: start and gate length of a Note event, in samples
StartSample(evt, tempo) == BeatsToSamples(evt.time, tempo)
GateSamples(evt, tempo) == BeatsToSamples(evt.gate, tempo)

\* render, lines 364-370.  g_event is the index of the event in the list.
ScheduledNote(evt, i, tempo, tuning) ==
    [start_sample |-> StartSample(evt, tempo),
     release_sample |-> WrapAdd(StartSample(evt, tempo), GateSamples(evt, tempo)),
     frequency |-> Unwrap(note_to_frequency_with_tuning(evt.pitch, tuning)),
     velocity |-> RNorm(<<evt.velocity, 127>>),
     instrument |-> evt.instrument,
     g_event |-> i]

IsScheduled(evt, tuning) ==
    evt.kind = "Note" /\ IsSome(note_to_frequency_with_tuning(evt.pitch, tuning))

\* render, lines 347-373: the notes made from the events lo..hi, in event order
RECURSIVE CollectFrom(_, _, _, _, _)
CollectFrom(events, lo, hi, tempo, tuning) ==
    IF lo > hi THEN <<>>
    ELSE IF lo = hi
    THEN (IF IsScheduled(events[lo], tuning)
          THEN <<ScheduledNote(events[lo], lo, tempo, tuning)>> ELSE <<>>)
    ELSE CollectFrom(events, lo, (lo + hi) \div 2, tempo, tuning)
         \o CollectFrom(events, (lo + hi) \div 2 + 1, hi, tempo, tuning)

\* whether `start + ...` of line 363 overflows for some note, or the i32
\* arithmetic of note_to_midi (line 128) does for some Note event's pitch
CollectOverflows(events, tempo, tuning) ==
    \E i \in 1..Len(events) :
        \/ /\ IsScheduled(events[i], tuning)
           /\ Overflows(StartSample(events[i], tempo), GateSamples(events[i], tempo))
        \/ /\ events[i].kind = "Note"
           /\ note_to_midi_overflows(events[i].pitch)

\* A faulty sort that reverses notes of equal start, which C34_OnceInOrder
\* must tell apart
SortRankTiesReversed(notes, j) ==
    Cardinality({i \in 1..Len(notes) :
                    \/ notes[i].start_sample < notes[j].start_sample
                    \/ notes[i].start_sample = notes[j].start_sample /\ i >= j})

\* scheduled.sort_by_key(|n| n.start_sample), a stable sort: the note at
\* index j goes to the place given by the number of notes that start
\* earlier, or start with it and stand before it
SortRank(notes, j) ==
    Cardinality({i \in 1..Len(notes) :
                    \/ notes[i].start_sample < notes[j].start_sample
                    \/ notes[i].start_sample = notes[j].start_sample /\ i <= j})

SortByStart(notes) ==
    LET rank == [j \in 1..Len(notes) |-> SortRank(notes, j)]
    IN  [k \in 1..Len(notes) |-> notes[CHOOSE j \in 1..Len(notes) : rank[j] = k]]

\* render, lines 380-382
ReleaseSamples(n) == SecToSamples(UnwrapOr(n.instrument.release, <<3, 10>>))
EffectsTailSamples == SecToSamples(<<1, 2>>)

\* A faulty end in which Tail adds no effects tail, which C9_TailLength must
\* tell apart
NoteEndWithoutTail(mode, n) ==
    IF mode = "Gate" THEN n.release_sample
    ELSE WrapAdd(n.release_sample, ReleaseSamples(n))

\* the end of one note under an end mode (lines 387, 396, 408)
NoteEnd(mode, n) ==
    CASE mode = "Gate" -> n.release_sample
      [] mode = "Release" -> WrapAdd(n.release_sample, ReleaseSamples(n))
      [] mode = "Tail" -> WrapAdd(WrapAdd(n.release_sample, ReleaseSamples(n)),
                                  EffectsTailSamples)

\* whether an addition of lines 396 or 408 overflows for note n
NoteEndOverflows(mode, n) ==
    /\ mode # "Gate"
    /\ \/ Overflows(n.release_sample, ReleaseSamples(n))
       \/ /\ mode = "Tail"
          /\ Overflows(WrapAdd(n.release_sample, ReleaseSamples(n)), EffectsTailSamples)

\* .max().unwrap_or(0) over the ends of the notes lo..hi
RECURSIVE MaxEndFrom(_, _, _, _)
MaxEndFrom(mode, notes, lo, hi) ==
    IF lo > hi THEN 0
    ELSE IF lo = hi THEN NoteEnd(mode, notes[lo])
    ELSE Max(MaxEndFrom(mode, notes, lo, (lo + hi) \div 2),
             MaxEndFrom(mode, notes, (lo + hi) \div 2 + 1, hi))

\* A faulty length without the cursor floor, which C10_TailNotShorter must
\* tell apart
TotalSamplesWithoutFloor(mode, notes, cursor) ==
    MaxEndFrom(mode, notes, 1, Len(notes))

\* render, lines 384-414
TotalSamples(mode, notes, cursor) ==
    Max(cursor, MaxEndFrom(mode, notes, 1, Len(notes)))

\* Voice::with_config, release_sample, note_on (lines 453-456 and the like)
OscillatorVoice(note) ==
    VoiceNoteOn([VoiceWithConfig(note.instrument) EXCEPT
                    !.release_sample = note.release_sample],
                note.frequency, note.velocity)

\* render, lines 435-491: the voice made for a scheduled note
NewVoice(note, tuning) ==
    IF IsSome(note.instrument.preset_ref)
    THEN LET name == Unwrap(note.instrument.preset_ref)
             midi_note == note_to_midi_from_freq(note.frequency, tuning)
         IN  IF name \in DOMAIN preset_registry
             THEN LET preset == preset_registry[name]
                  IN  IF preset.kind = "Sampler"
                      THEN LET zone == find_zone(preset.sampler, midi_note)
                           IN  IF IsSome(zone)
                               THEN [SamplerVoiceNew(Unwrap(zone), midi_note,
                                                     note.velocity, tuning)
                                       EXCEPT !.release_sample = note.release_sample]
                               ELSE OscillatorVoice(note)
                      ELSE LET sub_voices == trigger_note(preset.composite, midi_note,
                                                          note.velocity, tuning)
                           IN  IF sub_voices = <<>>
                               THEN OscillatorVoice(note)
                               ELSE [kind |-> "Composite", voices |-> sub_voices,
                                     release_sample |-> note.release_sample]
             ELSE OscillatorVoice(note)
    ELSE OscillatorVoice(note)

\* whether making the voice evaluates an overflowing subtraction in trigger_note
NewVoiceUnderflows(note, tuning) ==
    /\ IsSome(note.instrument.preset_ref)
    /\ Unwrap(note.instrument.preset_ref) \in DOMAIN preset_registry
    /\ LET preset == preset_registry[Unwrap(note.instrument.preset_ref)]
       IN  /\ preset.kind = "Composite"
           /\ TriggerUnderflows(preset.composite,
                                note_to_midi_from_freq(note.frequency, tuning),
                                note.velocity, tuning)

\* A faulty line 433 (`<=` for `<`), which C1_VoiceCap must tell apart
PoolHasRoomOffByOne(vs) == Len(vs) <= MaxVoices

\* line 433: voices.len() < self.max_voices
PoolHasRoom(vs) == Len(vs) < MaxVoices

\* the guard of the activation loop, lines 429-430
NoteDue ==
    /\ next_note_idx < Len(scheduled)
    /\ scheduled[next_note_idx + 1].start_sample < block_end

\* A faulty line 499 (no lower bound), which C2_NoteOffOnce must tell apart
ReleaseDueNoLowerBound(v) == ActiveReleaseSample(v) < block_end

\* line 499
ReleaseDue(v) ==
    ActiveReleaseSample(v) >= block_start /\ ActiveReleaseSample(v) < block_end

\* the locals of a render call before its first statement
Fresh ==
    /\ bpm = DefaultBpm
    /\ tuning_pitch = DefaultTuning
    /\ cursor_samples = 0
    /\ scheduled = <<>>
    /\ total_samples = 0
    /\ output_len = None
    /\ voices = <<>>
    /\ next_note_idx = 0
    /\ block_start = 0
    /\ block_end = 0
    /\ retired = <<>>
    /\ dropped = {}
    /\ wrapped = FALSE
    /\ lens = [m \in EndModes |-> None]

NoLastUnits ==
    /\ osc = None
    /\ pcm = None
    /\ compiler = None

NoLaterUnits ==
    /\ composite = None
    /\ engine = None
    /\ mixer = None
    /\ effect = None
    /\ stereo = None

\* no object is driven on its own
NoUnits ==
    /\ envelope = None
    /\ voice = None
    /\ sampler_voice = None
    /\ group = None
    /\ NoLaterUnits
    /\ NoLastUnits
    /\ log = None

\* render is called with some event list
Init ==
    /\ pc = "start"
    /\ event_list \in [events : EventSeqs, total_beats : TotalBeats, end_mode : EndModes]
    /\ Fresh
    /\ NoUnits

\* lines 324-344: tempo, tuning and the cursor length
ExtractTempo ==
    /\ pc = "start"
    /\ bpm' = ExtractBpm(event_list.events)
    /\ tuning_pitch' = ExtractTuning(event_list.events)
    /\ cursor_samples' = BeatsToSamples(event_list.total_beats, bpm')
    /\ pc' = "collect"
    /\ UNCHANGED <<units, event_list, scheduled, total_samples, output_len, voices,
                   next_note_idx, block_start, block_end, retired, dropped,
                   wrapped, lens>>

\* lines 346-376: the scheduled notes, sorted by start
CollectNotes ==
    /\ pc = "collect"
    /\ scheduled' = SortByStart(CollectFrom(event_list.events, 1, Len(event_list.events),
                                             bpm, tuning_pitch))
    /\ wrapped' = CollectOverflows(event_list.events, bpm, tuning_pitch)
    /\ pc' = "length"
    /\ UNCHANGED <<units, event_list, bpm, tuning_pitch, cursor_samples, total_samples,
                   output_len, voices, next_note_idx, block_start, block_end,
                   retired, dropped, lens>>

\* lines 128 and 363 in a build with overflow checks: the arithmetic of
\* note_to_midi, or `start + ...`, panics
CollectNotesPanic ==
    /\ pc = "collect"
    /\ CollectOverflows(event_list.events, bpm, tuning_pitch)
    /\ pc' = "panic"
    /\ UNCHANGED <<units, event_list, bpm, tuning_pitch, cursor_samples, scheduled,
                   total_samples, output_len, voices, next_note_idx, block_start,
                   block_end, retired, dropped, wrapped, lens>>

\* lines 378-414: the total length
ComputeLength ==
    /\ pc = "length"
    /\ total_samples' = TotalSamples(event_list.end_mode, scheduled, cursor_samples)
    /\ wrapped' = (wrapped \/ \E i \in 1..Len(scheduled) :
                                 NoteEndOverflows(event_list.end_mode, scheduled[i]))
    /\ pc' = "alloc"
    /\ UNCHANGED <<units, event_list, bpm, tuning_pitch, cursor_samples, scheduled,
                   output_len, voices, next_note_idx, block_start, block_end,
                   retired, dropped, lens>>

\* lines 396 and 408 in a build with overflow checks
ComputeLengthPanic ==
    /\ pc = "length"
    /\ ~wrapped
    /\ \E i \in 1..Len(scheduled) : NoteEndOverflows(event_list.end_mode, scheduled[i])
    /\ pc' = "panic"
    /\ UNCHANGED <<units, event_list, bpm, tuning_pitch, cursor_samples, scheduled,
                   total_samples, output_len, voices, next_note_idx, block_start,
                   block_end, retired, dropped, wrapped, lens>>

\* line 420: vec![0.0_f64; total_samples]
Allocate ==
    /\ pc = "alloc"
    /\ total_samples <= AllocMax
    /\ output_len' = Some(total_samples)
    /\ pc' = "block"
    /\ UNCHANGED <<units, event_list, bpm, tuning_pitch, cursor_samples, scheduled,
                   total_samples, voices, next_note_idx, block_start, block_end,
                   retired, dropped, wrapped, lens>>

\* line 420 for a length no allocation can have: "capacity overflow"
AllocatePanic ==
    /\ pc = "alloc"
    /\ total_samples > AllocMax
    /\ pc' = "panic"
    /\ UNCHANGED <<units, event_list, bpm, tuning_pitch, cursor_samples, scheduled,
                   total_samples, output_len, voices, next_note_idx, block_start,
                   block_end, retired, dropped, wrapped, lens>>

\* lines 424-426: the next block
BeginBlock ==
    /\ pc = "block"
    /\ block_start < total_samples
    /\ block_end' = Min(block_start + BlockSize, total_samples)
    /\ pc' = "activate"
    /\ UNCHANGED <<units, event_list, bpm, tuning_pitch, cursor_samples, scheduled,
                   total_samples, output_len, voices, next_note_idx, block_start,
                   retired, dropped, wrapped, lens>>

\* lines 429-494, one iteration with room in the voice pool
ActivateNote ==
    /\ pc = "activate"
    /\ NoteDue
    /\ PoolHasRoom(voices)
    /\ LET note == scheduled[next_note_idx + 1]
       IN  /\ voices' = Append(voices,
                               WithHistory(NewVoice(note, tuning_pitch), next_note_idx + 1,
                                           block_start))
           /\ wrapped' = (wrapped \/ NewVoiceUnderflows(note, tuning_pitch))
    /\ next_note_idx' = next_note_idx + 1
    /\ UNCHANGED <<units, pc, event_list, bpm, tuning_pitch, cursor_samples, scheduled,
                   total_samples, output_len, block_start, block_end, retired,
                   dropped, lens>>

\* composite.rs line 93 in a build with overflow checks: `len() - 1` panics
ActivateNotePanic ==
    /\ pc = "activate"
    /\ NoteDue
    /\ PoolHasRoom(voices)
    /\ ~wrapped
    /\ NewVoiceUnderflows(scheduled[next_note_idx + 1], tuning_pitch)
    /\ pc' = "panic"
    /\ UNCHANGED <<units, event_list, bpm, tuning_pitch, cursor_samples, scheduled,
                   total_samples, output_len, voices, next_note_idx, block_start,
                   block_end, retired, dropped, wrapped, lens>>

\* lines 429-494, one iteration with the voice pool full: the note is skipped
DropNote ==
    /\ pc = "activate"
    /\ NoteDue
    /\ ~PoolHasRoom(voices)
    /\ next_note_idx' = next_note_idx + 1
    /\ dropped' = dropped \cup {next_note_idx + 1}
    /\ UNCHANGED <<units, pc, event_list, bpm, tuning_pitch, cursor_samples, scheduled,
                   total_samples, output_len, voices, block_start, block_end,
                   retired, wrapped, lens>>

\* lines 497-502, once the activation loop has ended
ReleaseVoices ==
    /\ pc = "activate"
    /\ ~NoteDue
    /\ voices' = [i \in 1..Len(voices) |->
                    IF ReleaseDue(voices[i]) THEN ActiveNoteOff(voices[i]) ELSE voices[i]]
    /\ pc' = "mix"
    /\ UNCHANGED <<units, event_list, bpm, tuning_pitch, cursor_samples, scheduled,
                   total_samples, output_len, next_note_idx, block_start, block_end,
                   retired, dropped, wrapped, lens>>

\* lines 504-519: every voice not finished gives this_block samples
MixBlock ==
    /\ pc = "mix"
    /\ voices' = [i \in 1..Len(voices) |->
                    IF ActiveIsFinished(voices[i]) THEN voices[i]
                    ELSE RunSamples(voices[i], block_end - block_start, block_start)]
    /\ pc' = "retain"
    /\ UNCHANGED <<units, event_list, bpm, tuning_pitch, cursor_samples, scheduled,
                   total_samples, output_len, next_note_idx, block_start, block_end,
                   retired, dropped, wrapped, lens>>

Live(v) == ~ActiveIsFinished(v)
Gone(v) == ActiveIsFinished(v)

\* lines 521-524: finished voices leave, the block ends
RetainVoices ==
    /\ pc = "retain"
    /\ voices' = SelectSeq(voices, Live)
    /\ retired' = retired \o [i \in 1..Len(SelectSeq(voices, Gone)) |->
                                [SelectSeq(voices, Gone)[i] EXCEPT !.g_gone = block_end]]
    /\ block_start' = block_end
    /\ pc' = "block"
    /\ UNCHANGED <<units, event_list, bpm, tuning_pitch, cursor_samples, scheduled,
                   total_samples, output_len, next_note_idx, block_end, dropped,
                   wrapped, lens>>

\* line 527: the buffer is returned
Return ==
    /\ pc = "block"
    /\ block_start >= total_samples
    /\ pc' = "done"
    /\ UNCHANGED <<units, event_list, bpm, tuning_pitch, cursor_samples, scheduled,
                   total_samples, output_len, voices, next_note_idx, block_start,
                   block_end, retired, dropped, wrapped, lens>>

Next ==
    \/ ExtractTempo
    \/ CollectNotes
    \/ CollectNotesPanic
    \/ ComputeLength
    \/ ComputeLengthPanic
    \/ Allocate
    \/ AllocatePanic
    \/ BeginBlock
    \/ ActivateNote
    \/ ActivateNotePanic
    \/ DropNote
    \/ ReleaseVoices
    \/ MixBlock
    \/ RetainVoices
    \/ Return

Spec == Init /\ [][Next]_vars

----------------------------------------------------------------------------
(* One event list rendered under each end mode, as the test                 *)
(* end_mode_gate_vs_tail does with two: a whole render call is one step, of *)
(* which the caller keeps the length of the buffer.                         *)

\* lines 324-376 for the caller's events
SortedNotes(events) ==
    SortByStart(CollectFrom(events, 1, Len(events), ExtractBpm(events),
                            ExtractTuning(events)))

\* lines 324-414: total_samples of a render of the caller's list under mode
RenderedLength(el, mode) ==
    TotalSamples(mode, SortedNotes(el.events),
                 BeatsToSamples(el.total_beats, ExtractBpm(el.events)))

\* whether some usize addition of the render exceeds usize::MAX: in lines
\* 363, 396, 408, or in trigger_note for a note that gets a voice (a note
\* among the first max_voices that starts below the buffer length)
RenderOverflows(el, mode) ==
    LET notes == SortedNotes(el.events)
        total == RenderedLength(el, mode)
    IN  \/ CollectOverflows(el.events, ExtractBpm(el.events), ExtractTuning(el.events))
        \/ \E i \in 1..Len(notes) : NoteEndOverflows(mode, notes[i])
        \/ \E i \in 1..Min(Len(notes), MaxVoices) :
              /\ notes[i].start_sample < total
              /\ NewVoiceUnderflows(notes[i], ExtractTuning(el.events))

\* the lists with fewer notes than the voice pool holds
LenSeqs == {q \in EventSeqs : Len(q) < MaxVoices}

InitLen ==
    /\ pc = "caller"
    /\ event_list \in [events : LenSeqs, total_beats : TotalBeats, end_mode : {"Gate"}]
    /\ Fresh
    /\ NoUnits

\* engine.render(&song) with end_mode = mode returns; the caller keeps len()
RenderLength(mode) ==
    /\ pc = "caller"
    /\ lens[mode] = None
    /\ RenderedLength(event_list, mode) <= AllocMax
    /\ bpm' = ExtractBpm(event_list.events)
    /\ tuning_pitch' = ExtractTuning(event_list.events)
    /\ cursor_samples' = BeatsToSamples(event_list.total_beats, bpm')
    /\ scheduled' = SortedNotes(event_list.events)
    /\ lens' = [lens EXCEPT ![mode] = Some(RenderedLength(event_list, mode))]
    /\ wrapped' = (wrapped \/ RenderOverflows(event_list, mode))
    /\ UNCHANGED <<units, pc, event_list, total_samples, output_len, voices, next_note_idx,
                   block_start, block_end, retired, dropped>>

\* engine.render(&song) with end_mode = mode panics: the buffer cannot be
\* allocated, or an addition overflows in a build that checks it
RenderLengthPanic(mode) ==
    /\ pc = "caller"
    /\ lens[mode] = None
    /\ \/ RenderedLength(event_list, mode) > AllocMax
       \/ ~wrapped /\ RenderOverflows(event_list, mode)
    /\ pc' = "panic"
    /\ UNCHANGED <<units, event_list, bpm, tuning_pitch, cursor_samples, scheduled,
                   total_samples, output_len, voices, next_note_idx, block_start,
                   block_end, retired, dropped, wrapped, lens>>

NextLen ==
    \E mode \in EndModes : RenderLength(mode) \/ RenderLengthPanic(mode)

SpecLen == InitLen /\ [][NextLen]_vars

----------------------------------------------------------------------------
(* Properties of render *)

\* the step-by-step render and the one-step render agree: a render that
\* returns has the length RenderedLength gives, one that panics has a length
\* that cannot be allocated or an overflowing addition
RenderedLengthAgrees ==
    /\ pc = "done" =>
          /\ output_len = Some(RenderedLength(event_list, event_list.end_mode))
          /\ Unwrap(output_len) <= AllocMax
          /\ wrapped = RenderOverflows(event_list, event_list.end_mode)
    /\ pc = "panic" =>
          \/ RenderedLength(event_list, event_list.end_mode) > AllocMax
          \/ RenderOverflows(event_list, event_list.end_mode)

\* every voice the call has made: those still active and those removed
AllVoices == voices \o retired

\* C1: the voice set never holds more than max_voices voices, a composite
\* group being one element of it; and while it holds max_voices, a note that
\* is due is passed over (the set is left as it is, the next note comes up).
C1_VoiceCap ==
    /\ [](Len(voices) <= MaxVoices)
    /\ [][(pc = "activate" /\ NoteDue /\ Len(voices) >= MaxVoices)
            => (voices' = voices /\ next_note_idx' = next_note_idx + 1)]_vars

\* a note was dropped with the pool full of composite groups
C1_Witness ==
    /\ Len(voices) = MaxVoices
    /\ dropped # {}
    /\ \E i \in 1..Len(voices) :
          voices[i].kind = "Composite" /\ Len(voices[i].voices) > 1

\* C2 as stated: when render returns, every voice it made has received
\* note_off exactly once.
C2_Original ==
    pc = "done" => \A i \in 1..Len(AllVoices) : AllVoices[i].g_offs = 1

\* C2, amended: no voice receives note_off twice; and when render returns, a
\* voice has received it (once) exactly if its release_sample lies in a block
\* that was rendered while the voice was in the voice set, that is, at or
\* after the start of the block that made it, below the end of the block
\* after which it was removed and below the buffer length.
C2_NoteOffOnce ==
    /\ \A i \in 1..Len(AllVoices) : AllVoices[i].g_offs <= 1
    /\ pc = "done" =>
          \A i \in 1..Len(AllVoices) :
              LET v == AllVoices[i]
                  limit == IF v.g_gone = -1 THEN total_samples ELSE v.g_gone
              IN  v.g_offs = 1 <=>
                      (v.g_born <= v.release_sample /\ v.release_sample < limit)

\* a render that released one voice and removed another before its release
C2_Witness ==
    /\ pc = "done"
    /\ \E i \in 1..Len(AllVoices) : AllVoices[i].g_offs = 1
    /\ \E i \in 1..Len(AllVoices) :
          /\ AllVoices[i].g_offs = 0
          /\ AllVoices[i].g_gone # -1
          /\ AllVoices[i].g_gone <= AllVoices[i].release_sample

\* C3 as stated: a voice adds nothing to the output below the start_sample
\* of its note: the first index at which it adds a non-zero sample, if there
\* is one, is at or above start_sample.
C3_Original ==
    \A i \in 1..Len(AllVoices) :
        \/ AllVoices[i].g_sound = -1
        \/ AllVoices[i].g_sound >= scheduled[AllVoices[i].g_note].start_sample

\* C4 as stated: render does not fail, whatever the event list.
C4_Original == pc # "panic"

\* v is w, history fields aside
SameVoice(v, w) == \A f \in DOMAIN w : v[f] = w[f]

\* the voice C5 describes for a note: by the preset_ref, the registry, the
\* zones that cover the note and the sub-voices of trigger_note
VoiceAsDescribed(note, v) ==
    LET ref == note.instrument.preset_ref
        midi_note == note_to_midi_from_freq(note.frequency, tuning_pitch)
        oscillator == SameVoice(v, OscillatorVoice(note))
    IN  IF ref = None \/ Unwrap(ref) \notin DOMAIN preset_registry THEN oscillator
        ELSE LET preset == preset_registry[Unwrap(ref)]
             IN  IF preset.kind = "Sampler"
                 THEN LET zones == preset.sampler.zones
                          covering == {k \in 1..Len(zones) :
                                          zones[k].key_range_low <= midi_note
                                          /\ midi_note <= zones[k].key_range_high}
                      IN  IF covering = {} THEN oscillator
                          ELSE LET first == CHOOSE k \in covering :
                                                \A j \in covering : k <= j
                               IN  /\ v.kind = "Sampler"
                                   /\ SameVoice(v, [SamplerVoiceNew(zones[first], midi_note,
                                                                   note.velocity, tuning_pitch)
                                                      EXCEPT !.release_sample =
                                                                 note.release_sample])
                 ELSE LET subs == trigger_note(preset.composite, midi_note,
                                               note.velocity, tuning_pitch)
                      IN  IF subs = <<>> THEN oscillator
                          ELSE /\ v.kind = "Composite"
                               /\ v.voices = subs
                               /\ v.release_sample = note.release_sample

\* C5 as stated: when a note is due and the pool has room, the step adds
\* exactly one voice to the voice set, the one described for the note.
C5_Original ==
    [][(pc = "activate" /\ NoteDue /\ Len(voices) < MaxVoices)
        => /\ Len(voices') = Len(voices) + 1
           /\ SubSeq(voices', 1, Len(voices)) = voices
           /\ VoiceAsDescribed(scheduled[next_note_idx + 1], voices'[Len(voices')])]_vars

\* C5 where trigger_note returns: the same, for the steps that do not panic
C5_WhenReturning ==
    [][(pc = "activate" /\ NoteDue /\ Len(voices) < MaxVoices /\ pc' # "panic")
        => /\ Len(voices') = Len(voices) + 1
           /\ SubSeq(voices', 1, Len(voices)) = voices
           /\ VoiceAsDescribed(scheduled[next_note_idx + 1], voices'[Len(voices')])]_vars

\* the events of the list that set `target` to a value that parses
Parseable(target) ==
    {i \in 1..Len(event_list.events) :
        /\ event_list.events[i].kind = "SetProperty"
        /\ event_list.events[i].target = target
        /\ IsSome(ParseNumber(event_list.events[i].value))}

\* the value of the last of them in list order, or dflt when there is none
LastValue(target, dflt) ==
    IF Parseable(target) = {} THEN dflt
    ELSE Unwrap(ParseNumber(event_list.events[SetMax(Parseable(target))].value))

\* C6: once the properties are scanned, bpm and tuning_pitch are the values of
\* the last track.beatsPerMinute and track.tuningPitch events in list order
\* whose value parses, or 120 and 440; and every scheduled note, wherever its
\* event stands in the list, has its start from that bpm and its frequency
\* from that tuning.
C6_LastWins ==
    /\ pc # "start" =>
          /\ bpm = LastValue("track.beatsPerMinute", DefaultBpm)
          /\ tuning_pitch = LastValue("track.tuningPitch", DefaultTuning)
    /\ \A i \in 1..Len(scheduled) :
          LET evt == event_list.events[scheduled[i].g_event]
          IN  /\ scheduled[i].start_sample
                   = BeatsToSamples(evt.time, LastValue("track.beatsPerMinute", DefaultBpm))
              /\ scheduled[i].frequency.tuning
                   = LastValue("track.tuningPitch", DefaultTuning)

\* a note is scheduled at 90 BPM, the tempo set by an event that comes after
\* the note in the list
C6_Witness ==
    /\ scheduled # <<>>
    /\ bpm = 90
    /\ scheduled[1].g_event < SetMax(Parseable("track.beatsPerMinute"))

\* time * 60 / bpm * sample_rate for a beat count, as an exact fraction
ExactSamples(beats) == <<beats[1] * 60 * SampleRate, beats[2] * bpm>>

\* q is a finite number that is not negative
FiniteNonNeg(q) == q[2] # 0 /\ ((q[1] >= 0 /\ q[2] > 0) \/ (q[1] <= 0 /\ q[2] < 0))

\* q (finite, not negative) rounded to the nearest integer
RoundNearest(q) == (2 * Abs(q[1]) + Abs(q[2])) \div (2 * Abs(q[2]))

\* s is q with its fraction dropped, 0 for a negative q or a NaN, usize::MAX
\* for a q above it
IsTruncated(s, q) ==
    IF q[2] = 0 THEN s = (IF q[1] > 0 THEN UsizeMax ELSE 0)
    ELSE IF ~FiniteNonNeg(q) THEN s = 0
    ELSE \/ s = UsizeMax /\ Abs(q[1]) >= UsizeMax * Abs(q[2])
         \/ /\ 0 <= s /\ s < UsizeMax
            /\ s * Abs(q[2]) <= Abs(q[1])
            /\ Abs(q[1]) < (s + 1) * Abs(q[2])

\* C7 as stated: start_sample and the gate length are the exact values
\* rounded to the nearest integer (for the notes whose exact values are
\* finite and not negative).
C7_Original ==
    \A i \in 1..Len(scheduled) :
        LET evt == event_list.events[scheduled[i].g_event]
        IN  (FiniteNonNeg(ExactSamples(evt.time)) /\ FiniteNonNeg(ExactSamples(evt.gate)))
            => /\ scheduled[i].start_sample = RoundNearest(ExactSamples(evt.time))
               /\ scheduled[i].release_sample
                    = scheduled[i].start_sample + RoundNearest(ExactSamples(evt.gate))

\* C7, amended: start_sample is time * 60 / bpm * sample_rate with its
\* fraction dropped (0 for a negative value or a NaN, usize::MAX for a value
\* above it), and release_sample is start_sample plus the gate length cut the
\* same way, the sum taken modulo usize::MAX + 1.
C7_Truncation ==
    \A i \in 1..Len(scheduled) :
        LET evt == event_list.events[scheduled[i].g_event]
            start == scheduled[i].start_sample
            release == scheduled[i].release_sample
            gate == IF release >= start THEN release - start
                    ELSE release - start + UsizeMax + 1
        IN  /\ IsTruncated(start, ExactSamples(evt.time))
            /\ IsTruncated(gate, ExactSamples(evt.gate))
            /\ 0 <= release /\ release <= UsizeMax

\* a note is scheduled whose exact start has a fraction of a half or more
C7_Witness ==
    \E i \in 1..Len(scheduled) :
        LET q == ExactSamples(event_list.events[scheduled[i].g_event].time)
        IN  /\ FiniteNonNeg(q)
            /\ scheduled[i].start_sample < RoundNearest(q)

\* the largest element of a set of lengths, 0 for the empty set
Latest(S) == IF S = {} THEN 0 ELSE SetMax(S)

\* C8 as stated: the returned length is, for Gate, the larger of the cursor
\* length and the latest release_sample and, for Release, the larger of the
\* cursor length and the latest release_sample + release length.
C8_Original ==
    pc = "done" =>
        /\ event_list.end_mode = "Gate" =>
              output_len = Some(Max(cursor_samples,
                    Latest({scheduled[i].release_sample : i \in 1..Len(scheduled)})))
        /\ event_list.end_mode = "Release" =>
              output_len = Some(Max(cursor_samples,
                    Latest({scheduled[i].release_sample + ReleaseSamples(scheduled[i]) :
                               i \in 1..Len(scheduled)})))

\* C8 where no sum exceeds usize::MAX: the same, for the renders in which no
\* usize addition has wrapped
C8_WhenInRange == wrapped \/ C8_Original

\* the latest end of a release (release_sample + release length) over the
\* scheduled notes, 0 without notes
LatestReleaseEnd ==
    Latest({scheduled[i].release_sample + ReleaseSamples(scheduled[i]) :
               i \in 1..Len(scheduled)})

\* no sum made for the Tail length exceeds usize::MAX
TailSumsInRange ==
    \A i \in 1..Len(scheduled) :
        scheduled[i].release_sample + ReleaseSamples(scheduled[i]) + SampleRate \div 2
            <= UsizeMax

\* C9 as stated: the Tail length of a list is its Release length plus half a
\* second of samples, and is not below the cursor length.
C9_Original ==
    (IsSome(lens["Tail"]) /\ IsSome(lens["Release"]))
    => /\ Unwrap(lens["Tail"]) = Unwrap(lens["Release"]) + SampleRate \div 2
       /\ Unwrap(lens["Tail"]) >= cursor_samples

\* C9, amended: the Tail length is never below the cursor length; without a
\* scheduled note it is the cursor length, as the Release length is; with
\* scheduled notes whose sums stay within usize it is the larger of the cursor
\* length and the latest release end plus half a second of samples, which is
\* the Release length plus half a second exactly when the latest release end
\* is not below the cursor length.
C9_TailLength ==
    IsSome(lens["Tail"])
    => /\ Unwrap(lens["Tail"]) >= cursor_samples
       /\ scheduled = <<>> =>
             /\ Unwrap(lens["Tail"]) = cursor_samples
             /\ IsSome(lens["Release"]) => Unwrap(lens["Release"]) = cursor_samples
       /\ (scheduled # <<>> /\ TailSumsInRange) =>
             /\ Unwrap(lens["Tail"])
                  = Max(cursor_samples, LatestReleaseEnd + SampleRate \div 2)
             /\ IsSome(lens["Release"]) =>
                   (Unwrap(lens["Tail"]) = Unwrap(lens["Release"]) + SampleRate \div 2
                    <=> LatestReleaseEnd >= cursor_samples)

\* a list with a note, rendered under Release and under Tail, whose release
\* end is below the cursor: the Tail length is the Release length
C9_Witness ==
    /\ IsSome(lens["Tail"]) /\ IsSome(lens["Release"])
    /\ scheduled # <<>>
    /\ LatestReleaseEnd < cursor_samples
    /\ Unwrap(lens["Tail"]) = Unwrap(lens["Release"])

\* C10 as stated: of two renders of the same events and total_beats, the Tail
\* buffer is longer than the Gate buffer.
C10_Original ==
    (IsSome(lens["Gate"]) /\ IsSome(lens["Tail"]))
    => Unwrap(lens["Tail"]) > Unwrap(lens["Gate"])

\* C10, amended: while the sums for the Tail length stay within usize, the
\* Tail buffer is not shorter than the Gate buffer, and it is longer exactly
\* when some scheduled note's release end plus half a second of samples is
\* above the cursor length.
C10_TailNotShorter ==
    (IsSome(lens["Gate"]) /\ IsSome(lens["Tail"]) /\ TailSumsInRange)
    => /\ Unwrap(lens["Tail"]) >= Unwrap(lens["Gate"])
       /\ Unwrap(lens["Tail"]) > Unwrap(lens["Gate"])
            <=> \E i \in 1..Len(scheduled) :
                   scheduled[i].release_sample + ReleaseSamples(scheduled[i])
                       + SampleRate \div 2 > cursor_samples

\* a list with a note rendered both ways, the Tail buffer the longer one
C10_Witness ==
    /\ IsSome(lens["Gate"]) /\ IsSome(lens["Tail"])
    /\ scheduled # <<>>
    /\ Unwrap(lens["Tail"]) > Unwrap(lens["Gate"])

----------------------------------------------------------------------------
(* Properties of a released note *)

\* floor(rel * sample_rate) for a release time in seconds
ReleaseLength(rel) == Max(0, RFloor(<<rel[1] * SampleRate, rel[2]>>))

\* the oscillator voices whose release_sample plus release length lies inside
\* the rendered range
StoppableVoices ==
    {i \in 1..Len(AllVoices) :
        /\ AllVoices[i].kind = "Oscillator"
        /\ AllVoices[i].release_sample
             + ReleaseLength(AllVoices[i].envelope.release) < total_samples}

\* C11 as stated: when render returns, every oscillator voice whose
\* release_sample R lies inside the rendered range is finished and has added
\* no non-zero sample at an index >= R + floor(rel * sample_rate).
C11_Original ==
    pc = "done" =>
        \A i \in StoppableVoices :
            LET v == AllVoices[i]
            IN  /\ v.finished
                /\ v.g_last < v.release_sample + ReleaseLength(v.envelope.release)

\* the same for the voices whose release_sample is not below the start of the
\* block that made them (no wrapped start + gate): these do stop
C11_WhenReleasable ==
    pc = "done" =>
        \A i \in StoppableVoices :
            LET v == AllVoices[i]
            IN  v.g_born <= v.release_sample =>
                    /\ v.finished
                    /\ v.g_last < v.release_sample
                                      + ReleaseLength(v.envelope.release)

----------------------------------------------------------------------------
(* An Envelope driven by its caller: any sequence of gate_on, gate_off and  *)
(* next_sample calls on an envelope whose public settings the caller chose. *)
(* History in log: op, the last call; gates, the number of gate calls so    *)
(* far; in_stage, the number of next_sample calls made since the present    *)
(* stage was entered (kept at 0 in the untimed stages).                     *)

\* most gate_on/gate_off (note_on/note_off) calls made on one object
MaxGates == 3

\* render's variables while no render call is running
NoRender ==
    /\ pc = "client"
    /\ event_list = [events |-> <<>>, total_beats |-> <<0, 1>>, end_mode |-> "Gate"]
    /\ Fresh

\* settings the caller writes to the pub fields attack, decay, sustain,
\* release: stage times of 0, 2 and 3 samples, sustain 0, 1/2, 1; and one
\* setting with sustain above 1
EnvSettings ==
    [attack : {<<0, 1>>, <<3, 100>>}, decay : {<<0, 1>>, <<1, 50>>},
     sustain : {<<0, 1>>, <<1, 2>>, <<1, 1>>}, release : {<<0, 1>>, <<3, 100>>}]
    \cup {[attack |-> <<1, 100>>, decay |-> <<1, 50>>, sustain |-> <<3, 2>>,
           release |-> <<1, 50>>]}

\* Envelope::new, then the settings written
EnvelopeWith(c) ==
    [EnvelopeNew EXCEPT !.attack = c.attack, !.decay = c.decay,
                        !.sustain = c.sustain, !.release = c.release]

TimedStages == {"Attack", "Decay", "Release"}

InitEnv ==
    /\ NoRender
    /\ NoLastUnits
    /\ NoLaterUnits
    /\ envelope \in {EnvelopeWith(c) : c \in EnvSettings}
    /\ voice = None
    /\ sampler_voice = None
    /\ group = None
    /\ log = [op |-> "new", gates |-> 0, in_stage |-> 0]

\* env.gate_on()
EnvGateOn ==
    /\ pc = "client"
    /\ envelope # None
    /\ log.gates < MaxGates
    /\ envelope' = gate_on(envelope)
    /\ log' = [op |-> "gate_on", gates |-> log.gates + 1, in_stage |-> 0]
    /\ UNCHANGED <<render_vars, last_units, later_units, voice, sampler_voice, group>>

\* env.gate_off()
EnvGateOff ==
    /\ pc = "client"
    /\ envelope # None
    /\ log.gates < MaxGates
    /\ envelope' = gate_off(envelope)
    /\ log' = [op |-> "gate_off", gates |-> log.gates + 1,
               in_stage |-> IF envelope.stage = "Idle" THEN log.in_stage ELSE 0]
    /\ UNCHANGED <<render_vars, last_units, later_units, voice, sampler_voice, group>>

\* env.next_sample()
EnvNext ==
    /\ pc = "client"
    /\ envelope # None
    /\ envelope' = EnvNextSample(envelope)
    /\ log' = [op |-> "next_sample", gates |-> log.gates,
               in_stage |-> IF envelope'.stage = envelope.stage
                                /\ envelope.stage \in TimedStages
                            THEN log.in_stage + 1 ELSE 0]
    /\ UNCHANGED <<render_vars, last_units, later_units, voice, sampler_voice, group>>

NextEnv ==
    \/ EnvGateOn
    \/ EnvGateOff
    \/ EnvNext

SpecEnv == InitEnv /\ [][NextEnv]_vars

\* the caller keeps calling next_sample, as render's mix loop does for
\* every voice that is not finished
SpecEnvLive == SpecEnv /\ WF_vars(EnvNext)

\* C12: the only stage changes are: gate_on takes any stage to Attack;
\* gate_off takes any stage but Idle to Release and changes nothing in Idle;
\* next_sample takes Attack to Decay, Decay to Sustain, Release to Idle and
\* leaves Sustain and Idle; is_finished() holds exactly in Idle.
C12_StageChanges ==
    /\ [][/\ log'.op = "gate_on" => envelope'.stage = "Attack"
          /\ log'.op = "gate_off" =>
                IF envelope.stage = "Idle" THEN envelope' = envelope
                ELSE envelope'.stage = "Release"
          /\ log'.op = "next_sample" =>
                \/ envelope'.stage = envelope.stage
                \/ <<envelope.stage, envelope'.stage>> \in
                      {<<"Attack", "Decay">>, <<"Decay", "Sustain">>,
                       <<"Release", "Idle">>}]_vars
    /\ [](EnvIsFinished(envelope) <=> envelope.stage = "Idle")

\* gate_off was called on an idle envelope that had been used before
C12_Witness ==
    /\ log.op = "gate_off"
    /\ envelope.stage = "Idle"
    /\ log.gates = MaxGates

\* sustain in [0, 1] and no negative stage time
SettingsInRange(e) ==
    /\ RLeq(<<0, 1>>, e.sustain) /\ RLeq(e.sustain, <<1, 1>>)
    /\ RLeq(<<0, 1>>, e.attack) /\ RLeq(<<0, 1>>, e.decay)
    /\ RLeq(<<0, 1>>, e.release)

\* C13: with sustain in [0, 1] and non-negative stage times the level, which
\* is what next_sample returns, is in [0, 1] after every call, whatever the
\* order of the gate_on, gate_off and next_sample calls.
C13_LevelInRange ==
    SettingsInRange(envelope) =>
        /\ RLeq(<<0, 1>>, envelope.level)
        /\ RLeq(envelope.level, <<1, 1>>)

\* an attack re-triggered from the sustain level 1/2 has risen above it
C13_Witness ==
    /\ log.op = "next_sample"
    /\ envelope.stage = "Attack"
    /\ envelope.start_level = <<1, 2>>
    /\ RLess(envelope.start_level, envelope.level)

\* the settings time of a timed stage
StageTime(e) ==
    CASE e.stage = "Attack" -> e.attack
      [] e.stage = "Decay" -> e.decay
      [] e.stage = "Release" -> e.release

\* max(1, floor(stage_time * sample_rate))
StageCalls(e) ==
    Max(1, RFloor(<<StageTime(e)[1] * SampleRate, StageTime(e)[2]>>))

\* the stage that follows a timed stage, and the level the stage ends at
StageAfter(e) ==
    CASE e.stage = "Attack" -> [stage |-> "Decay", level |-> <<1, 1>>]
      [] e.stage = "Decay" -> [stage |-> "Sustain", level |-> e.sustain]
      [] e.stage = "Release" -> [stage |-> "Idle", level |-> <<0, 1>>]

\* C14: without further gate calls a timed stage lasts exactly
\* max(1, floor(stage_time * sample_rate)) next_sample calls: the call of
\* that number ends the stage at the stage's end level (1 after Attack,
\* sustain after Decay, 0 after Release) in the next stage, and no earlier
\* call leaves the stage; and a release is followed by Idle unless a gate_on
\* comes first.
C14_StageLength ==
    /\ [][(log'.op = "next_sample" /\ envelope.stage \in TimedStages) =>
            IF log.in_stage + 1 = StageCalls(envelope)
            THEN /\ envelope'.stage = StageAfter(envelope).stage
                 /\ envelope'.level = StageAfter(envelope).level
            ELSE /\ log.in_stage + 1 < StageCalls(envelope)
                 /\ envelope'.stage = envelope.stage]_vars
    /\ (envelope.stage = "Release") ~> (envelope.stage \in {"Idle", "Attack"})

\* a release of three samples has run to its end
C14_Witness ==
    /\ log.op = "next_sample"
    /\ envelope.stage = "Idle"
    /\ envelope.release = <<3, 100>>
    /\ envelope.stage_counter = 3
    /\ envelope.start_level # <<0, 1>>

\* C15: gate_on leaves the level as it is, in every stage; and (with the
\* settings in range) no next_sample call of the attack that follows lowers
\* the level, which reaches 1.0 when the attack ends.
C15_AttackFromLevel ==
    [][/\ log'.op = "gate_on" => envelope'.level = envelope.level
       /\ (/\ log'.op = "next_sample"
           /\ envelope.stage = "Attack"
           /\ SettingsInRange(envelope)) =>
              /\ RLeq(envelope.level, envelope'.level)
              /\ envelope'.stage = "Decay" => envelope'.level = <<1, 1>>]_vars

\* gate_on during a release, at a level between 0 and 1, and the first
\* sample of the new attack taken
C15_Witness ==
    /\ log.op = "next_sample"
    /\ envelope.stage = "Attack"
    /\ log.gates = 3
    /\ envelope.stage_counter = 1
    /\ RLess(<<0, 1>>, envelope.start_level)
    /\ RLess(envelope.start_level, envelope.sustain)
    /\ envelope.level = envelope.start_level

----------------------------------------------------------------------------
(* A Voice driven by its caller: any sequence of note_on, note_off and      *)
(* next_sample calls.  History in log: op, the last call; gates, the number *)
(* of note_on and note_off calls; calls, the number of next_sample calls;   *)
(* seen, a next_sample call since the last note_on has found the envelope   *)
(* finished; sounds, the last next_sample returned a non-zero value;        *)
(* after, the number of next_sample calls made since seen became true.      *)

\* most next_sample calls made on one object
MaxCalls == 14

\* configurations given to Voice::with_config: stage times of 0 to 3
\* samples
VoiceConfigs ==
    {[Instrument(Some(r), None) EXCEPT !.waveform = w, !.attack = Some(a),
                                       !.decay = Some(<<1, 100>>),
                                       !.sustain = Some(su)] :
        r \in {<<0, 1>>, <<3, 100>>}, w \in {"sine", "triangle"},
        a \in {<<0, 1>>, <<1, 50>>}, su \in {<<0, 1>>, <<1, 2>>}}

InitVoice ==
    /\ NoRender
    /\ NoLastUnits
    /\ NoLaterUnits
    /\ envelope = None
    /\ voice \in {VoiceWithConfig(c) : c \in VoiceConfigs}
    /\ sampler_voice = None
    /\ group = None
    /\ log = [op |-> "new", gates |-> 0, calls |-> 0, seen |-> FALSE,
              sounds |-> FALSE, after |-> 0]

\* voice.note_on(frequency, velocity)
VoiceOn ==
    /\ pc = "client"
    /\ voice # None
    /\ log.gates < MaxGates
    /\ voice' = VoiceNoteOn(voice, midi_to_frequency(69, DefaultTuning), <<100, 127>>)
    /\ log' = [log EXCEPT !.op = "note_on", !.gates = @ + 1, !.seen = FALSE,
                          !.after = 0]
    /\ UNCHANGED <<render_vars, last_units, later_units, envelope, sampler_voice, group>>

\* voice.note_off()
VoiceOff ==
    /\ pc = "client"
    /\ voice # None
    /\ log.gates < MaxGates
    /\ voice' = VoiceNoteOff(voice)
    /\ log' = [log EXCEPT !.op = "note_off", !.gates = @ + 1]
    /\ UNCHANGED <<render_vars, last_units, later_units, envelope, sampler_voice, group>>

\* voice.next_sample()
VoiceNext ==
    /\ pc = "client"
    /\ voice # None
    /\ log.calls < MaxCalls
    /\ voice' = VoiceNextSample(voice)
    /\ log' = [log EXCEPT
                 !.op = "next_sample", !.calls = @ + 1,
                 !.seen = @ \/ (~voice.finished /\ EnvIsFinished(voice'.envelope)),
                 !.sounds = VoiceSampleSounds(voice),
                 !.after = IF log.seen THEN @ + 1 ELSE 0]
    /\ UNCHANGED <<render_vars, last_units, later_units, envelope, sampler_voice, group>>

NextVoice ==
    \/ VoiceOn
    \/ VoiceOff
    \/ VoiceNext

SpecVoice == InitVoice /\ [][NextVoice]_vars

\* C16: once a next_sample call has found the envelope finished,
\* is_finished() is true and every later next_sample call returns exactly 0,
\* until the next note_on; and is_finished() is never true while the
\* envelope is in a stage other than Idle.
C16_SilentOnceFinished ==
    /\ [](log.seen => VoiceIsFinished(voice))
    /\ [](VoiceIsFinished(voice) => voice.envelope.stage = "Idle")
    /\ [][(log'.op = "next_sample" /\ log.seen) => ~log'.sounds]_vars

\* a voice that sounded, was released, finished, and was then asked for two
\* more samples, with note_off called once more in between
C16_Witness ==
    /\ log.seen
    /\ log.after = 2
    /\ log.gates = 3
    /\ log.op = "next_sample"
    /\ voice.osc_n > 2

----------------------------------------------------------------------------
(* A SamplerVoice driven by its caller: made by SamplerVoice::new, then any *)
(* sequence of next_sample and note_off calls.  History in log: op, the     *)
(* last call; gates, the number of note_off calls; calls, the number of     *)
(* next_sample calls; since_off, the number of next_sample calls since the  *)
(* last note_off (-1 before the first); sounds, the last next_sample        *)
(* returned a non-zero value.                                               *)

\* short zones: a one-shot, a looped one, and one whose loop end lies beyond
\* its buffer (the loop points of a zone are not checked against its buffer)
OneShotZone == Zone(0, 127, 60, SampleRate, None, None, 6)
LoopedZone == Zone(0, 127, 60, SampleRate, Some(2), Some(5), 8)
LoopPastEndZone == Zone(0, 127, 60, SampleRate, Some(2), Some(9), 6)
UnitZones == {OneShotZone, LoopedZone, LoopPastEndZone}

\* notes two octaves below the root, at it and two octaves above: playback
\* rates 1/4, 1 and 4
UnitNotes == {36, 60, 84}

InitSampler ==
    /\ NoRender
    /\ NoLastUnits
    /\ NoLaterUnits
    /\ envelope = None
    /\ voice = None
    /\ sampler_voice \in {SamplerVoiceNew(z, n, <<1, 1>>, DefaultTuning) :
                             z \in UnitZones, n \in UnitNotes}
    /\ group = None
    /\ log = [op |-> "new", gates |-> 0, calls |-> 0, since_off |-> -1,
              sounds |-> FALSE]

\* voice.next_sample()
SamplerNext ==
    /\ pc = "client"
    /\ sampler_voice # None
    /\ log.calls < MaxCalls
    /\ sampler_voice' = SamplerNextSample(sampler_voice)
    /\ log' = [log EXCEPT !.op = "next_sample", !.calls = @ + 1,
                          !.since_off = IF @ = -1 THEN -1 ELSE @ + 1,
                          !.sounds = SamplerSampleSounds(sampler_voice)]
    /\ UNCHANGED <<render_vars, last_units, later_units, envelope, voice, group>>

\* voice.note_off()
SamplerOff ==
    /\ pc = "client"
    /\ sampler_voice # None
    /\ log.gates < MaxGates
    /\ sampler_voice' = SamplerNoteOff(sampler_voice)
    /\ log' = [log EXCEPT !.op = "note_off", !.gates = @ + 1, !.since_off = 0]
    /\ UNCHANGED <<render_vars, last_units, later_units, envelope, voice, group>>

NextSampler ==
    \/ SamplerNext
    \/ SamplerOff

SpecSampler == InitSampler /\ [][NextSampler]_vars

\* the voice has loop points with loop_start < loop_end
HasLoop(v) ==
    /\ IsSome(v.loop_start)
    /\ IsSome(v.loop_end)
    /\ Unwrap(v.loop_start) < Unwrap(v.loop_end)

BelowLoopEnd(v) == RLess(v.position, RInt(Unwrap(v.loop_end)))

\* C17 as stated: for a voice with loop points loop_start < loop_end, as
\* long as note_off has not been called the read position is below loop_end
\* and the voice is not finished.
C17_Original ==
    (HasLoop(sampler_voice) /\ ~sampler_voice.released) =>
        /\ BelowLoopEnd(sampler_voice)
        /\ ~SamplerIsFinished(sampler_voice)

\* C17, amended: for a voice with loop points loop_start < loop_end, as long
\* as note_off has not been called the read position is below loop_end, and
\* if loop_end is not beyond the buffer length the voice is not finished;
\* after note_off a next_sample call of an unfinished voice moves the
\* position forward by exactly one step (no wrap).
C17_LoopHolds ==
    /\ [](HasLoop(sampler_voice) /\ ~sampler_voice.released =>
            /\ BelowLoopEnd(sampler_voice)
            /\ Unwrap(sampler_voice.loop_end) <= sampler_voice.buffer_len =>
                  ~SamplerIsFinished(sampler_voice))
    /\ [][(/\ log'.op = "next_sample"
           /\ sampler_voice.released
           /\ ~sampler_voice.finished) =>
              sampler_voice'.position =
                  RAdd(sampler_voice.position,
                       RMul(sampler_voice.playback_rate,
                            sampler_voice.sample_rate_ratio))]_vars

\* a looped voice, never released, whose position has been wrapped back
\* several times
C17_Witness ==
    /\ HasLoop(sampler_voice)
    /\ Unwrap(sampler_voice.loop_end) <= sampler_voice.buffer_len
    /\ ~sampler_voice.released
    /\ log.calls = MaxCalls
    /\ sampler_voice.playback_rate = <<1, 1>>

\* (release * sample_rate) of the SamplerEnvelope, at least 1
SamplerReleaseCalls == Max(1, RFloor(<<SamplerEnvelopeOn.release[1] * SampleRate,
                                      SamplerEnvelopeOn.release[2]>>))

----------------------------------------------------------------------------
(* A composite voice group driven as render drives it: made by              *)
(* trigger_note, then next_sample and note_off calls and the retain test    *)
(* that removes it from the voice set.  History in log: op, the last        *)
(* operation; gates, the number of note_off calls; calls, the number of     *)
(* next_sample calls; value, what the last next_sample returned; parts,     *)
(* what the sub-voices returned in it; was_live, which sub-voices were not  *)
(* finished before it; active, the group is still in the voice set.         *)

UnitLayer(zones, mix_levels) ==
    [mode |-> "Layer",
     children |-> [i \in 1..Len(zones) |-> SamplerChild(<<zones[i]>>)],
     mix_levels |-> mix_levels, split_points |-> None]

\* layers of one, two and three samplers
UnitComposites ==
    { UnitLayer(<<LoopedZone>>, None),
      UnitLayer(<<OneShotZone, LoopedZone>>, Some(<<<<7, 10>>>>)),
      UnitLayer(<<OneShotZone, LoopedZone, LoopPastEndZone>>, None) }

InitGroup ==
    /\ NoRender
    /\ NoLastUnits
    /\ NoLaterUnits
    /\ envelope = None
    /\ voice = None
    /\ sampler_voice = None
    /\ group \in {WithHistory([kind |-> "Composite",
                               voices |-> trigger_note(c, n, <<100, 127>>, DefaultTuning),
                               release_sample |-> 0], 1, 0) :
                     c \in UnitComposites, n \in UnitNotes}
    /\ log = [op |-> "new", gates |-> 0, calls |-> 0, value |-> <<0, 1>>,
              parts |-> <<>>, was_live |-> <<>>, active |-> TRUE]

\* lines 508-511: voice.next_sample() on a group that is not finished
GroupNext ==
    /\ pc = "client"
    /\ group # None
    /\ log.active
    /\ ~ActiveIsFinished(group)
    /\ log.calls < MaxCalls
    /\ group' = ActiveNextSample(group)
    /\ log' = [log EXCEPT
                 !.op = "next_sample", !.calls = @ + 1,
                 !.value = GroupSampleValue(group),
                 !.parts = GroupParts(group),
                 !.was_live = [i \in 1..Len(group.voices) |->
                                  ~group.voices[i].finished]]
    /\ UNCHANGED <<render_vars, last_units, later_units, envelope, voice, sampler_voice>>

\* lines 498-502: voice.note_off() on the group
GroupOff ==
    /\ pc = "client"
    /\ group # None
    /\ log.active
    /\ log.gates < MaxGates
    /\ group' = ActiveNoteOff(group)
    /\ log' = [log EXCEPT !.op = "note_off", !.gates = @ + 1]
    /\ UNCHANGED <<render_vars, last_units, later_units, envelope, voice, sampler_voice>>

\* line 522: voices.retain(|v| !v.is_finished())
GroupRetain ==
    /\ pc = "client"
    /\ group # None
    /\ log.active
    /\ log' = [log EXCEPT !.op = "retain", !.active = ~ActiveIsFinished(group)]
    /\ UNCHANGED <<render_vars, last_units, later_units, envelope, voice, sampler_voice, group>>

NextGroup ==
    \/ GroupNext
    \/ GroupOff
    \/ GroupRetain

SpecGroup == InitGroup /\ [][NextGroup]_vars

\* the number of sub-voices that were not finished before the last call
LiveBefore == Cardinality({i \in 1..Len(log.was_live) : log.was_live[i]})

\* C19 as stated: the value a group returns is the sum of its sub-voices'
\* values divided by the number of sub-voices not finished before the call.
C19_Original ==
    (log.op = "next_sample" /\ LiveBefore > 0) =>
        RMul(log.value, RInt(LiveBefore)) = RSum(log.parts)

\* C19, amended: the value a group returns is the sum of the values of all
\* its sub-voices divided by the number of all its sub-voices, finished or
\* not; a finished sub-voice adds 0 to the sum.
C19_MeanOverAll ==
    log.op = "next_sample" =>
        /\ RMul(log.value, RInt(Len(group.voices))) = RSum(log.parts)
        /\ \A i \in 1..Len(log.parts) :
              ~log.was_live[i] => log.parts[i] = <<0, 1>>

\* a group of two of which one had finished returned a non-zero value
C19_Witness ==
    /\ log.op = "next_sample"
    /\ Len(group.voices) = 2
    /\ LiveBefore = 1
    /\ log.value # <<0, 1>>

\* C20: a group is finished exactly when all its sub-voices are, so the
\* retain test keeps it as long as one of them is not; and note_off on the
\* group releases every sub-voice: each has released set and its envelope
\* in Release unless it was Done.
C20_GroupFinish ==
    /\ [](ActiveIsFinished(group) <=>
            \A i \in 1..Len(group.voices) : group.voices[i].finished)
    /\ [](~log.active => \A i \in 1..Len(group.voices) : group.voices[i].finished)
    /\ [][log'.op = "retain" =>
            (log'.active <=> \E i \in 1..Len(group.voices) :
                                 ~group.voices[i].finished)]_vars
    /\ [][log'.op = "note_off" =>
            \A i \in 1..Len(group.voices) :
                /\ group'.voices[i].released
                /\ group'.voices[i].envelope.state =
                       IF group.voices[i].envelope.state = "Done" THEN "Done"
                       ELSE "Release"]_vars

\* a group of three kept by the retain test with one sub-voice finished, one
\* released and still sounding
C20_Witness ==
    /\ log.op = "retain"
    /\ log.active
    /\ Len(group.voices) = 3
    /\ \E i \in 1..3 : group.voices[i].finished
    /\ \E i \in 1..3 : /\ ~group.voices[i].finished
                       /\ group.voices[i].released
                       /\ group.voices[i].envelope.state = "Release"

----------------------------------------------------------------------------
(* CompositeInstrument::trigger_note called on its own (dsp/composite.rs).   *)
(* composite is [instrument, midi_note, velocity], the receiver and the      *)
(* arguments of one call; log is [op, voices]: op is "new" before the call,  *)
(* "trigger_note" once it has returned voices, "panic" once it has panicked. *)

\* most children of one composite
MaxChildren == 3

\* a Split with split_points and no children, nested or on its own
VoidSplit ==
    [mode |-> "Split", children |-> <<>>, mix_levels |-> None,
     split_points |-> Some(<<60>>)]

\* children: a sampler on the keys 55..65, one on 60..72, one on every key, a
\* nested Layer of the first two, and a nested VoidSplit
ChildPool ==
    { SamplerChild(<<ShortZone>>), SamplerChild(<<LoopZone>>),
      SamplerChild(<<OneShotZone>>),
      [kind |-> "Composite",
       composite |-> [mode |-> "Layer",
                      children |-> <<SamplerChild(<<ShortZone>>),
                                     SamplerChild(<<LoopZone>>)>>,
                      mix_levels |-> Some(<<<<1, 2>>>>), split_points |-> None]],
      [kind |-> "Composite", composite |-> VoidSplit] }

\* mix_levels absent, shorter than the children, and one per child
MixPool == {None, Some(<<<<7, 10>>>>), Some(<<<<1, 2>>, <<1, 4>>, <<3, 4>>>>)}

\* split_points absent, ascending (one, two, two equal) and descending
SplitPool == {None, Some(<<60>>), Some(<<60, 66>>), Some(<<60, 60>>), Some(<<66, 60>>)}

TriggerComposites ==
    LET lists == SeqsUpTo(ChildPool, MaxChildren)
    IN  {[mode |-> "Layer", children |-> cs, mix_levels |-> m, split_points |-> None] :
            cs \in lists, m \in MixPool}
        \cup {[mode |-> "Split", children |-> cs, mix_levels |-> None, split_points |-> sp] :
            cs \in lists, sp \in SplitPool}
        \cup {[mode |-> "Chain", children |-> cs, mix_levels |-> None, split_points |-> None] :
            cs \in lists}

\* notes below, between and above the key ranges and the split points
TriggerNotes == {50, 58, 60, 64, 66, 70}

InitTrigger ==
    /\ NoRender
    /\ NoLastUnits
    /\ envelope = None
    /\ voice = None
    /\ sampler_voice = None
    /\ group = None
    /\ composite \in [instrument : TriggerComposites, midi_note : TriggerNotes,
                      velocity : {<<1, 1>>, <<100, 127>>}]
    /\ engine = None
    /\ mixer = None
    /\ effect = None
    /\ stereo = None
    /\ log = [op |-> "new", voices |-> <<>>]

\* lines 62-122: the call returns its voices (where `len() - 1` is evaluated
\* with no children, only in a build that does not check overflow)
TriggerNote ==
    /\ pc = "client"
    /\ composite # None
    /\ log.op = "new"
    /\ log' = [op |-> "trigger_note",
               voices |-> trigger_note(composite.instrument, composite.midi_note,
                                       composite.velocity, DefaultTuning)]
    /\ UNCHANGED <<render_vars, last_units, first_units, later_units>>

\* line 93: `self.children.len() - 1` panics in a build that checks overflow
TriggerNotePanic ==
    /\ pc = "client"
    /\ composite # None
    /\ log.op = "new"
    /\ TriggerUnderflows(composite.instrument, composite.midi_note,
                         composite.velocity, DefaultTuning)
    /\ log' = [op |-> "panic", voices |-> <<>>]
    /\ UNCHANGED <<render_vars, last_units, first_units, later_units>>

NextTrigger ==
    \/ TriggerNote
    \/ TriggerNotePanic

SpecTrigger == InitTrigger /\ [][NextTrigger]_vars

\* the concatenation of a sequence of sequences
RECURSIVE Concat(_)
Concat(qs) == IF qs = <<>> THEN <<>> ELSE Head(qs) \o Concat(Tail(qs))

\* the call of SpecTrigger has been made, on a composite of the given mode
Triggered(mode) == log.op # "new" /\ composite.instrument.mode = mode

\* what the i-th child of the called composite gives for the note at velocity v
ChildVoices(i, v) ==
    trigger_child(composite.instrument.children[i], composite.midi_note, v, DefaultTuning)

\* velocity * mix_levels[i], with 1.0 for a missing level
MixedVelocity(i) ==
    LET levels == composite.instrument.mix_levels
    IN  IF levels # None /\ i <= Len(Unwrap(levels))
        THEN RMul(composite.velocity, Unwrap(levels)[i])
        ELSE composite.velocity

\* the sub-voices a Layer is said to return: one per sampler child with a
\* covering zone (what a nested composite returns, for such a child), each at
\* its mixed velocity, in child order
LayerVoices ==
    Concat([i \in 1..Len(composite.instrument.children) |->
               ChildVoices(i, MixedVelocity(i))])

\* the sampler children of the called composite that have a zone for the note
CoveringChildren ==
    {i \in 1..Len(composite.instrument.children) :
        /\ composite.instrument.children[i].kind = "Sampler"
        /\ find_zone(composite.instrument.children[i].sampler, composite.midi_note) # None}

\* C21 as stated: a Layer call returns the sub-voices of its children in
\* child order, the i-th child triggered at velocity * mix_levels[i] (1.0 for
\* a missing level), and a child that has no zone for the note adds nothing
C21_Original ==
    Triggered("Layer") => log.op = "trigger_note" /\ log.voices = LayerVoices

\* C21 for calls that return: the voices are those of the children, in order
\* and at the mixed velocities; with sampler children only there are as many
\* voices as children with a covering zone
C21_WhenReturning ==
    (Triggered("Layer") /\ log.op = "trigger_note") =>
        /\ log.voices = LayerVoices
        /\ (\A i \in 1..Len(composite.instrument.children) :
               composite.instrument.children[i].kind = "Sampler")
           => /\ Len(log.voices) = Cardinality(CoveringChildren)
              /\ \A j \in 1..Len(log.voices) :
                    \E i \in CoveringChildren :
                        /\ Cardinality({h \in CoveringChildren : h < i}) = j - 1
                        /\ log.voices[j].velocity = MixedVelocity(i)
                        /\ log.voices[j].buffer_len =
                              Unwrap(find_zone(composite.instrument.children[i].sampler,
                                               composite.midi_note)).buffer_len

\* the called composite is a Split with ascending split_points
AscendingSplit ==
    /\ composite.instrument.split_points # None
    /\ \A i, j \in 1..Len(Unwrap(composite.instrument.split_points)) :
          i < j => Unwrap(composite.instrument.split_points)[i]
                      <= Unwrap(composite.instrument.split_points)[j]

\* the number of split points <= the note
PointsUpToNote ==
    Cardinality({i \in 1..Len(Unwrap(composite.instrument.split_points)) :
                    Unwrap(composite.instrument.split_points)[i] <= composite.midi_note})

\* C22 as stated: a Split call with ascending split_points triggers exactly
\* one child, the one at index min(number of split points <= the note,
\* number of children - 1), and returns that child's sub-voices
C22_Original ==
    (Triggered("Split") /\ AscendingSplit) =>
        /\ log.op = "trigger_note"
        /\ composite.instrument.children # <<>>
        /\ log.voices =
              ChildVoices(Min(PointsUpToNote, Len(composite.instrument.children) - 1) + 1,
                          composite.velocity)

\* C22 for calls that return, on a composite that has children
C22_WhenChildren ==
    (/\ Triggered("Split") /\ AscendingSplit
     /\ log.op = "trigger_note" /\ composite.instrument.children # <<>>) =>
        log.voices =
            ChildVoices(Min(PointsUpToNote, Len(composite.instrument.children) - 1) + 1,
                        composite.velocity)

\* the children of the called composite that give a voice for the note
ProducingChildren ==
    {i \in 1..Len(composite.instrument.children) :
        ChildVoices(i, composite.velocity) # <<>>}

\* C23 as stated: a Split call without split_points returns the sub-voices of
\* the first child that gives any, and nothing when no child gives a voice
C23_Original ==
    (Triggered("Split") /\ composite.instrument.split_points = None) =>
        /\ log.op = "trigger_note"
        /\ log.voices =
              IF ProducingChildren = {} THEN <<>>
              ELSE ChildVoices(CHOOSE i \in ProducingChildren :
                                  \A j \in ProducingChildren : i <= j,
                               composite.velocity)

\* C23 for calls that return
C23_WhenReturning ==
    (/\ Triggered("Split") /\ composite.instrument.split_points = None
     /\ log.op = "trigger_note") =>
        log.voices =
            IF ProducingChildren = {} THEN <<>>
            ELSE ChildVoices(CHOOSE i \in ProducingChildren :
                                \A j \in ProducingChildren : i <= j,
                             composite.velocity)

----------------------------------------------------------------------------
(* AudioEngine::render_stereo (dsp/engine.rs, lines 534-592).  stereo is     *)
(* [pc, effects, mono, left, right]: effects is the Option<&MasterEffects>   *)
(* argument, mono what render returned, left and right the two buffers.  A   *)
(* buffer element is [of, value, chain]: the mono index it was made from,    *)
(* its value when converted, and the effects whose process_block has         *)
(* rewritten it since, oldest first.  log is [calls]: the process_block      *)
(* calls made, in order.                                                     *)

\* most samples of the mono render
MaxFrames == 2

\* `s as f32`: the f32 nearest to s, kept apart from the f64 it was made from
AsF32(s) == <<"f32", s>>

\* the four `if let Some(..)` blocks: where control goes after each stage, in
\* a faulty order with Delay before Chorus, which C25_EffectOrder must tell
\* apart
AfterStageDelayFirst(stage) ==
    CASE stage = "delay" -> "chorus"
      [] stage = "chorus" -> "reverb"
      [] stage = "reverb" -> "compressor"
      [] stage = "compressor" -> "done"

\* the four `if let Some(..)` blocks: where control goes after each stage
AfterStage(stage) ==
    CASE stage = "chorus" -> "delay"
      [] stage = "delay" -> "reverb"
      [] stage = "reverb" -> "compressor"
      [] stage = "compressor" -> "done"

\* the stage entered first when effects is Some
FirstStage == CHOOSE f \in {"chorus", "delay", "reverb", "compressor"} :
                 \A g \in {"chorus", "delay", "reverb", "compressor"} : AfterStage(g) # f

\* process_block: process is called once for each index below the shorter
\* length, in index order, and its result is written back
process_block(name, buf) ==
    LET n == Min(Len(buf.left), Len(buf.right))
        over(q) == [i \in 1..Len(q) |->
                       IF i <= n THEN [q[i] EXCEPT !.chain = Append(@, name)] ELSE q[i]]
    IN  [left |-> over(buf.left), right |-> over(buf.right)]

MasterEffectsPool ==
    {None} \cup {Some(fx) : fx \in [chorus : {None, Some("ChorusConfig")},
                                    delay : {None, Some("DelayConfig")},
                                    reverb : {None, Some("ReverbConfig")},
                                    compressor : {None, Some("CompressorConfig")}]}

InitStereo ==
    /\ NoRender
    /\ NoLastUnits
    /\ envelope = None
    /\ voice = None
    /\ sampler_voice = None
    /\ group = None
    /\ composite = None
    /\ engine = None
    /\ mixer = None
    /\ effect = None
    /\ stereo \in [pc : {"start"}, effects : MasterEffectsPool,
                   mono : SeqsUpTo({<<0, 1>>, <<1, 2>>, <<-1, 3>>}, MaxFrames),
                   left : {<<>>}, right : {<<>>}]
    /\ log = [calls |-> <<>>]

\* lines 535-539: the mono render is converted and copied
ConvertMono ==
    /\ pc = "client"
    /\ stereo # None
    /\ stereo.pc = "start"
    /\ LET left == [i \in 1..Len(stereo.mono) |->
                       [of |-> i, value |-> AsF32(stereo.mono[i]), chain |-> <<>>]]
       IN  stereo' = [stereo EXCEPT
                        !.left = left, !.right = left,
                        !.pc = IF stereo.effects = None THEN "done" ELSE FirstStage]
    /\ UNCHANGED <<render_vars, last_units, first_units, composite, engine, mixer, effect, log>>

\* one `if let Some(cfg) = &fx.<field>` block: the effect is built and run
\* over both buffers, or the block is skipped
MasterStage(stage, name, cfg) ==
    /\ pc = "client"
    /\ stereo # None
    /\ stereo.pc = stage
    /\ IF cfg # None
       THEN LET out == process_block(name, stereo)
            IN  /\ stereo' = [stereo EXCEPT !.left = out.left, !.right = out.right,
                                             !.pc = AfterStage(stage)]
                /\ log' = [log EXCEPT !.calls = Append(@, name)]
       ELSE /\ stereo' = [stereo EXCEPT !.pc = AfterStage(stage)]
            /\ UNCHANGED log
    /\ UNCHANGED <<render_vars, last_units, first_units, composite, engine, mixer, effect>>

\* lines 543-552
MasterChorus ==
    stereo # None /\ stereo.effects # None
    /\ MasterStage("chorus", "Chorus", Unwrap(stereo.effects).chorus)
\* lines 554-564
MasterDelay ==
    stereo # None /\ stereo.effects # None
    /\ MasterStage("delay", "Delay", Unwrap(stereo.effects).delay)
\* lines 566-575
MasterReverb ==
    stereo # None /\ stereo.effects # None
    /\ MasterStage("reverb", "Reverb", Unwrap(stereo.effects).reverb)
\* lines 577-588
MasterCompressor ==
    stereo # None /\ stereo.effects # None
    /\ MasterStage("compressor", "Compressor", Unwrap(stereo.effects).compressor)

NextStereo ==
    \/ ConvertMono
    \/ MasterChorus
    \/ MasterDelay
    \/ MasterReverb
    \/ MasterCompressor

SpecStereo == InitStereo /\ [][NextStereo]_vars

\* the effects configured in a call, in the order Chorus, Delay, Reverb,
\* Compressor
ConfiguredChain ==
    IF stereo.effects = None THEN <<>>
    ELSE LET fx == Unwrap(stereo.effects)
         IN  (IF fx.chorus # None THEN <<"Chorus">> ELSE <<>>)
             \o (IF fx.delay # None THEN <<"Delay">> ELSE <<>>)
             \o (IF fx.reverb # None THEN <<"Reverb">> ELSE <<>>)
             \o (IF fx.compressor # None THEN <<"Compressor">> ELSE <<>>)

\* C25: when render_stereo returns, both channels have the length of the
\* mono render; each element comes from the mono sample of its index and has
\* been rewritten once by each configured effect, in the order Chorus, Delay,
\* Reverb, Compressor, and by no other; the process_block calls made are
\* those, once each, in that order; with no effect the two channels are the
\* converted mono render.  While the call runs, the calls made so far are a
\* prefix of that list and the two channels stay equal in length
C25_EffectOrder ==
    (stereo # None /\ stereo.pc # "start") =>
        /\ Len(stereo.left) = Len(stereo.mono)
        /\ Len(stereo.right) = Len(stereo.mono)
        /\ Len(log.calls) <= Len(ConfiguredChain)
        /\ log.calls = SubSeq(ConfiguredChain, 1, Len(log.calls))
        /\ \A i \in 1..Len(stereo.mono) :
              /\ stereo.left[i].of = i /\ stereo.right[i].of = i
              /\ stereo.left[i].value = AsF32(stereo.mono[i])
              /\ stereo.right[i].value = AsF32(stereo.mono[i])
              /\ stereo.left[i].chain = log.calls
              /\ stereo.right[i].chain = log.calls
        /\ stereo.pc = "done" => log.calls = ConfiguredChain

\* a call with Chorus and Reverb configured and Delay not has returned, on a
\* mono render that is not empty
C25_Witness ==
    /\ stereo # None
    /\ stereo.pc = "done"
    /\ stereo.mono # <<>>
    /\ stereo.effects # None
    /\ Unwrap(stereo.effects).delay = None
    /\ stereo.left[1].chain = <<"Chorus", "Reverb">>

----------------------------------------------------------------------------
(* Several render calls on one engine (dsp/engine.rs, lines 323-421).        *)
(* engine holds the AudioEngine's fields between the calls; log is [calls,   *)
(* checked, panicked]: calls, the event list and the result of each call     *)
(* that returned, in order; checked, whether the build checks usize          *)
(* overflow; panicked, a call has panicked.  A result is [len, notes]: the   *)
(* length of the returned buffer and the sorted schedule it is mixed from.   *)

\* most render calls made on one engine
MaxRenders == 2

\* A faulty render that stores the tempo and tuning it found on the engine,
\* which C26_RenderPure must tell apart
EngineKeepsTempo(eng, el) ==
    [eng EXCEPT !.bpm = ExtractBpmOn(eng, el.events),
                !.tuning_pitch = ExtractTuningOn(eng, el.events)]

\* the engine after render(&self, ..): bpm and tuning_pitch are copied into
\* locals (lines 325-326) and no field is assigned
EngineAfterRender(eng, el) == eng

\* lines 324-414 on the engine eng: the schedule and the buffer length
RenderOn(eng, el) ==
    LET tempo == ExtractBpmOn(eng, el.events)
        tuning == ExtractTuningOn(eng, el.events)
        notes == SortByStart(CollectFrom(el.events, 1, Len(el.events), tempo, tuning))
    IN  [len |-> TotalSamples(el.end_mode, notes, BeatsToSamples(el.total_beats, tempo)),
         notes |-> notes]

\* whether the call panics: the buffer cannot be allocated, or a usize
\* addition overflows in a build that checks it
RenderPanicsOn(eng, el, checked) ==
    LET tempo == ExtractBpmOn(eng, el.events)
        tuning == ExtractTuningOn(eng, el.events)
        out == RenderOn(eng, el)
    IN  \/ out.len > AllocMax
        \/ /\ checked
           /\ \/ CollectOverflows(el.events, tempo, tuning)
              \/ \E i \in 1..Len(out.notes) : NoteEndOverflows(el.end_mode, out.notes[i])
              \/ \E i \in 1..Min(Len(out.notes), eng.max_voices) :
                    /\ out.notes[i].start_sample < out.len
                    /\ NewVoiceUnderflows(out.notes[i], tuning)

\* events with and without a tempo or a tuning, and notes
TwicePool ==
    { SetProperty(<<0, 1>>, "track.beatsPerMinute", <<"9", "0">>),
      SetProperty(<<2, 1>>, "track.beatsPerMinute", <<"0">>),
      SetProperty(<<0, 1>>, "track.tuningPitch", <<"4", "3", "2">>),
      NoteEvent(<<1, 1>>, PitchA4, 80, <<3, 2>>, Instrument(Some(<<2, 1>>), None)),
      NoteEvent(<<3, 1>>, PitchC4, 100, <<3, 1>>, Instrument(None, Some("piano"))),
      NoteEvent(<<0, 1>>, PitchC4, 100, <<1, 1>>, Instrument(None, Some("void"))) }

TwiceLists ==
    [events : {<<>>} \cup {<<e>> : e \in TwicePool}
                     \cup {<<e, f>> : e \in TwicePool, f \in TwicePool},
     total_beats : {<<5, 1>>}, end_mode : {"Release"}]

InitTwice ==
    /\ NoRender
    /\ NoLastUnits
    /\ envelope = None
    /\ voice = None
    /\ sampler_voice = None
    /\ group = None
    /\ composite = None
    /\ engine = AudioEngineNew
    /\ mixer = None
    /\ effect = None
    /\ stereo = None
    /\ log \in [calls : {<<>>}, checked : BOOLEAN, panicked : {FALSE}]

\* engine.render(&el) returns
RenderReturns(el) ==
    /\ pc = "client"
    /\ engine # None
    /\ ~log.panicked
    /\ Len(log.calls) < MaxRenders
    /\ ~RenderPanicsOn(engine, el, log.checked)
    /\ log' = [log EXCEPT !.calls = Append(@, [event_list |-> el,
                                               out |-> RenderOn(engine, el)])]
    /\ engine' = EngineAfterRender(engine, el)
    /\ UNCHANGED <<render_vars, last_units, first_units, composite, mixer, effect, stereo>>

\* engine.render(&el) panics
RenderPanics(el) ==
    /\ pc = "client"
    /\ engine # None
    /\ ~log.panicked
    /\ Len(log.calls) < MaxRenders
    /\ RenderPanicsOn(engine, el, log.checked)
    /\ log' = [log EXCEPT !.panicked = TRUE]
    /\ engine' = EngineAfterRender(engine, el)
    /\ UNCHANGED <<render_vars, last_units, first_units, composite, mixer, effect, stereo>>

NextTwice ==
    \E el \in TwiceLists : RenderReturns(el) \/ RenderPanics(el)

SpecTwice == InitTwice /\ [][NextTwice]_vars

----------------------------------------------------------------------------
(* C27: a Note event whose pitch cannot be parsed (Spec) *)

\* the event list of the call without its i-th event
WithoutEvent(i) ==
    [event_list EXCEPT
        !.events = SubSeq(@, 1, i - 1) \o SubSeq(@, i + 1, Len(@))]

\* a schedule without the history field that numbers the events
Unnumbered(notes) == [k \in 1..Len(notes) |-> [notes[k] EXCEPT !.g_event = 0]]

\* the render of the call behaves as the render of the list without event i
\* does: the same schedule, the same length, no voice made for event i, and
\* no failure that the list without event i does not have
AsIfAbsent(i) ==
    LET ref == RenderOn(AudioEngineNew, WithoutEvent(i))
    IN  /\ pc \notin {"start", "collect", "panic"} =>
              /\ Unnumbered(scheduled) = Unnumbered(ref.notes)
              /\ \A k \in 1..Len(scheduled) : scheduled[k].g_event # i
        /\ pc \notin {"start", "collect", "length", "panic"} => total_samples = ref.len
        /\ pc = "panic" => RenderPanicsOn(AudioEngineNew, WithoutEvent(i), TRUE)

\* C27 as stated: a Note event whose pitch string does not parse to a MIDI
\* number (note_to_midi gives None, or its arithmetic overflows) is as if it
\* were absent: no note is scheduled for it, no voice is made for it, the
\* length is not changed by it and the other notes are scheduled as without it
C27_Original ==
    \A i \in 1..Len(event_list.events) :
        (/\ event_list.events[i].kind = "Note"
         /\ \/ note_to_midi(event_list.events[i].pitch) = None
            \/ note_to_midi_overflows(event_list.events[i].pitch))
        => AsIfAbsent(i)

\* C27 for the pitch strings that note_to_midi rejects
C27_WhenRejected ==
    \A i \in 1..Len(event_list.events) :
        (/\ event_list.events[i].kind = "Note"
         /\ note_to_midi(event_list.events[i].pitch) = None)
        => AsIfAbsent(i)

----------------------------------------------------------------------------
(* Mixer (dsp/mixer.rs).  mixer is [master_gain, buffer].  log is [op, n,    *)
(* adds, out]: op, the last call; n, the argument of the last clear (None    *)
(* before the first); adds, the <<index, sample>> arguments of the add calls *)
(* since the last clear, in call order; out, what output() returned if it    *)
(* was the last call.                                                        *)

\* longest buffer asked for, and most add calls after one clear
MaxBuffer == 2
MaxAdds == 3

\* soft_clip: x.tanh(), kept as the application of tanh to x
soft_clip(x) == <<"tanh", x>>

\* Mixer::new
MixerNew == [master_gain |-> <<4, 5>>, buffer |-> <<>>]

\* A faulty clear that resizes without emptying the buffer first, which
\* C28_MixerSum must tell apart
MixerResize(m, num_samples) ==
    [m EXCEPT !.buffer = [i \in 1..num_samples |->
                             IF i <= Len(m.buffer) THEN m.buffer[i] ELSE <<0, 1>>]]

\* Mixer::clear: buffer.clear(); buffer.resize(num_samples, 0.0)
MixerClear(m, num_samples) ==
    [m EXCEPT !.buffer = [i \in 1..num_samples |-> <<0, 1>>]]

\* Mixer::add (index counts from 0)
MixerAdd(m, index, sample) ==
    IF index < Len(m.buffer)
    THEN [m EXCEPT !.buffer[index + 1] = RAdd(@, sample)]
    ELSE m

\* Mixer::output
MixerOutput(m) ==
    [i \in 1..Len(m.buffer) |-> soft_clip(RMul(m.buffer[i], m.master_gain))]

\* samples the callers add
MixerSamples == {<<1, 2>>, <<-3, 4>>}

InitMixer ==
    /\ NoRender
    /\ NoLastUnits
    /\ envelope = None
    /\ voice = None
    /\ sampler_voice = None
    /\ group = None
    /\ composite = None
    /\ engine = None
    /\ mixer \in {MixerNew, [MixerNew EXCEPT !.master_gain = <<1, 2>>]}
    /\ effect = None
    /\ stereo = None
    /\ log = [op |-> "new", n |-> None, adds |-> <<>>, out |-> <<>>]

\* mixer.clear(num_samples)
CallClear(num_samples) ==
    /\ pc = "client"
    /\ mixer # None
    /\ mixer' = MixerClear(mixer, num_samples)
    /\ log' = [log EXCEPT !.op = "clear", !.n = Some(num_samples), !.adds = <<>>,
                          !.out = <<>>]
    /\ UNCHANGED <<render_vars, last_units, first_units, composite, engine, effect, stereo>>

\* mixer.add(index, sample)
CallAdd(index, sample) ==
    /\ pc = "client"
    /\ mixer # None
    /\ Len(log.adds) < MaxAdds
    /\ mixer' = MixerAdd(mixer, index, sample)
    /\ log' = [log EXCEPT !.op = "add", !.adds = Append(@, <<index, sample>>),
                          !.out = <<>>]
    /\ UNCHANGED <<render_vars, last_units, first_units, composite, engine, effect, stereo>>

\* mixer.output()
CallOutput ==
    /\ pc = "client"
    /\ mixer # None
    /\ log' = [log EXCEPT !.op = "output", !.out = MixerOutput(mixer)]
    /\ UNCHANGED <<render_vars, last_units, first_units, composite, engine, effect, stereo, mixer>>

NextMixer ==
    \/ \E n \in 0..MaxBuffer : CallClear(n)
    \/ \E index \in 0..MaxBuffer, sample \in MixerSamples : CallAdd(index, sample)
    \/ CallOutput

SpecMixer == InitMixer /\ [][NextMixer]_vars

\* the samples added at index i (from 0) since the last clear, in call order
AddedAt(i) ==
    LET at == {k \in 1..Len(log.adds) : log.adds[k][1] = i}
    IN  [j \in 1..Cardinality(at) |->
            log.adds[CHOOSE k \in at : Cardinality({h \in at : h <= k}) = j][2]]

\* C28: an output() made after a clear(n) and any add calls has length n, and
\* its element i is soft_clip(master_gain * the sum of the samples added at
\* index i since that clear): adds at an index >= n and everything before
\* the clear leave no trace
C28_MixerSum ==
    (mixer # None /\ log.op = "output" /\ log.n # None) =>
        /\ Len(log.out) = Unwrap(log.n)
        /\ \A i \in 1..Len(log.out) :
              log.out[i] = soft_clip(RMul(mixer.master_gain, RSum(AddedAt(i - 1))))

\* an output after clear(2), two adds at index 1 and one beyond the buffer,
\* at index 2
C28_Witness ==
    /\ mixer # None
    /\ log.op = "output"
    /\ log.n = Some(2)
    /\ Len(AddedAt(1)) = 2
    /\ Len(AddedAt(2)) = 1
    /\ log.out[2][2] # <<0, 1>>

----------------------------------------------------------------------------
(* The master effects (dsp/delay.rs, dsp/chorus.rs, dsp/reverb.rs), driven   *)
(* sample by sample.  Samples are f32: exact rationals up to F32Max in size, *)
(* beyond which a result is an infinity <<1, 0>> or <<-1, 0>>; <<0, 0>> is   *)
(* NaN (the rounding of results within f32::MAX is left out).  effect is the *)
(* effect object, with a field kind; log is [ins, wets, outs]: the           *)
(* <<left, right>> pairs passed to process, the wet pairs it mixed in and    *)
(* the pairs it returned, in call order.                                     *)

\* f32::MAX, on the scale of the model
F32Max == 1000

\* most process calls made on one effect
MaxSamples == 7

Sign(n) == IF n > 0 THEN 1 ELSE IF n < 0 THEN -1 ELSE 0

\* half the gap between f32::MAX and the f32 below it, on the scale of the
\* model (more than a unit sample)
F32HalfUlp == 2

\* the f32 that holds the exact result r of an operation: a result less than
\* F32HalfUlp beyond f32::MAX rounds to f32::MAX, one further out overflows
F32(r) ==
    IF r[2] = 0 THEN <<Sign(r[1]), 0>>
    ELSE IF Abs(r[1]) >= (F32Max + F32HalfUlp) * r[2] THEN <<Sign(r[1]), 0>>
    ELSE IF Abs(r[1]) > F32Max * r[2] THEN <<Sign(r[1]) * F32Max, 1>>
    ELSE r
FAdd(a, b) == F32(RAdd(a, b))
FSub(a, b) == F32(RSub(a, b))
FMul(a, b) == F32(RMul(a, b))
IsFinite(a) == a[2] # 0

\* f64::clamp(lo, hi), for a finite x
Clamp(x, lo, hi) == IF RLess(x, lo) THEN lo ELSE IF RLess(hi, x) THEN hi ELSE x

\* Delay::new
DelayNew(sample_rate, max_delay_seconds) ==
    LET buffer_size == AsUsize(RMul(RInt(sample_rate), max_delay_seconds)) + 1
    IN  [kind |-> "Delay",
         buffer_l |-> [i \in 1..buffer_size |-> <<0, 1>>],
         buffer_r |-> [i \in 1..buffer_size |-> <<0, 1>>],
         write_pos |-> 0, sample_rate |-> sample_rate,
         delay_time |-> <<1, 2>>, feedback |-> <<3, 10>>, mix |-> <<1, 2>>]

\* Delay::with_params
DelayWithParams(sample_rate, max_delay_seconds, delay_time, feedback, mix) ==
    [DelayNew(sample_rate, max_delay_seconds) EXCEPT
        !.delay_time = Clamp(delay_time, <<0, 1>>, max_delay_seconds),
        !.feedback = Clamp(feedback, <<0, 1>>, <<99, 100>>),
        !.mix = Clamp(mix, <<0, 1>>, <<1, 1>>)]

\* the delay in samples that process uses (lines 54-55)
DelaySamples(d) ==
    Min(AsUsize(RMul(d.delay_time, RInt(d.sample_rate))), Len(d.buffer_l) - 1)

\* A faulty read position, one sample too old, which C29_ImpulseEchoes must
\* tell apart
DelayReadPosOlder(d) ==
    (d.write_pos + Len(d.buffer_l) - DelaySamples(d) - 1) % Len(d.buffer_l)

\* lines 58-62: the read position (from 0)
DelayReadPos(d) ==
    IF d.write_pos >= DelaySamples(d)
    THEN d.write_pos - DelaySamples(d)
    ELSE Len(d.buffer_l) - (DelaySamples(d) - d.write_pos)

\* Delay::process: the effect after the call, the wet pair (what was read
\* from the delay lines) and the pair returned
DelayProcess(d, left, right) ==
    LET read_pos == DelayReadPos(d)
        delayed_l == d.buffer_l[read_pos + 1]
        delayed_r == d.buffer_r[read_pos + 1]
        feedback_l == FAdd(left, FMul(delayed_l, d.feedback))
        feedback_r == FAdd(right, FMul(delayed_r, d.feedback))
        dry == FSub(<<1, 1>>, d.mix)
    IN  [effect |-> [d EXCEPT !.buffer_l[d.write_pos + 1] = feedback_l,
                              !.buffer_r[d.write_pos + 1] = feedback_r,
                              !.write_pos = (d.write_pos + 1) % Len(d.buffer_l)],
         wet |-> <<delayed_l, delayed_r>>,
         out |-> <<FAdd(FMul(left, dry), FMul(delayed_l, d.mix)),
                   FAdd(FMul(right, dry), FMul(delayed_r, d.mix))>>]

\* Chorus::new
ChorusNew(sample_rate) ==
    LET buffer_size == AsUsize(RMul(RInt(sample_rate), <<1, 20>>)) + 1
    IN  [kind |-> "Chorus",
         buffer_l |-> [i \in 1..buffer_size |-> <<0, 1>>],
         buffer_r |-> [i \in 1..buffer_size |-> <<0, 1>>],
         write_pos |-> 0, sample_rate |-> sample_rate,
         phase_l |-> <<0, 1>>, phase_r |-> <<1, 4>>,
         rate |-> <<3, 2>>, depth |-> <<1, 500>>, delay |-> <<3, 200>>,
         mix |-> <<1, 2>>, stereo |-> <<1, 1>>]

\* Chorus::with_params
ChorusWithParams(sample_rate, rate, depth, mix) ==
    [ChorusNew(sample_rate) EXCEPT
        !.rate = Clamp(rate, <<1, 10>>, <<10, 1>>),
        !.depth = Clamp(depth, <<0, 1>>, <<1, 100>>),
        !.mix = Clamp(mix, <<0, 1>>, <<1, 1>>)]

\* (2.0 * PI * phase).sin(), exact at the quarter turns and kept as the
\* application of sin elsewhere
Sin2Pi(phase) ==
    CASE phase = <<0, 1>> -> <<0, 1>>
      [] phase = <<1, 4>> -> <<1, 1>>
      [] phase = <<1, 2>> -> <<0, 1>>
      [] phase = <<3, 4>> -> <<-1, 1>>
      [] OTHER -> <<"sin", phase>>

\* lines 100-106: the modulated delay in samples (depth * lfo is 0 for a
\* depth of 0, whatever the lfo), clamped to the buffer
ModulatedDelay(c, phase) ==
    LET swing == IF c.depth = <<0, 1>> THEN <<0, 1>>
                 ELSE RMul(c.depth, Sin2Pi(phase))
    IN  Clamp(RMul(RAdd(c.delay, swing), RInt(c.sample_rate)),
              <<1, 1>>, RInt(Len(c.buffer_l) - 1))

\* line 84: s0 + frac * (s1 - s0)
Interpolate(s0, s1, frac) ==
    FAdd(s0, FMul(frac, FSub(s1, s0)))

\* Chorus::read_interpolated
ChorusReadInterpolated(buffer, write_pos, delay_samples) ==
    LET buffer_len == Len(buffer)
        delay_int == AsUsize(delay_samples)
        frac == RSub(delay_samples, RInt(delay_int))
        read_pos_0 == IF write_pos >= delay_int
                      THEN write_pos - delay_int
                      ELSE buffer_len - (delay_int - write_pos)
        read_pos_1 == IF read_pos_0 = 0 THEN buffer_len - 1 ELSE read_pos_0 - 1
    IN  Interpolate(buffer[read_pos_0 + 1], buffer[read_pos_1 + 1], frac)

\* Chorus::process, for a sample rate of 20 or more (below it the buffer has
\* one slot and the clamp of line 105 panics)
ChorusProcess(c, left, right) ==
    LET buffer_l == [c.buffer_l EXCEPT ![c.write_pos + 1] = left]
        buffer_r == [c.buffer_r EXCEPT ![c.write_pos + 1] = right]
        wet_l == ChorusReadInterpolated(buffer_l, c.write_pos, ModulatedDelay(c, c.phase_l))
        wet_r == ChorusReadInterpolated(buffer_r, c.write_pos, ModulatedDelay(c, c.phase_r))
        phase_inc == RMul(c.rate, <<1, c.sample_rate>>)
        dry == FSub(<<1, 1>>, c.mix)
    IN  [effect |-> [c EXCEPT !.buffer_l = buffer_l,
                              !.buffer_r = buffer_r,
                              !.write_pos = (c.write_pos + 1) % Len(c.buffer_l),
                              !.phase_l = RMod(RAdd(c.phase_l, phase_inc), <<1, 1>>),
                              !.phase_r = RMod(RAdd(c.phase_r, phase_inc), <<1, 1>>)],
         wet |-> <<wet_l, wet_r>>,
         out |-> <<FAdd(FMul(left, dry), FMul(wet_l, c.mix)),
                   FAdd(FMul(right, dry), FMul(wet_r, c.mix))>>]

\* CombFilter::new
CombNew(size, feedback, damp) ==
    [buffer |-> [i \in 1..size |-> <<0, 1>>], index |-> 0, feedback |-> feedback,
     damp1 |-> damp, damp2 |-> RSub(<<1, 1>>, damp), filterstore |-> <<0, 1>>]

\* CombFilter::process: the filter after the call and the sample returned
CombProcess(f, input) ==
    LET output == f.buffer[f.index + 1]
        filterstore == FAdd(FMul(output, f.damp2), FMul(f.filterstore, f.damp1))
    IN  [filter |-> [f EXCEPT !.filterstore = filterstore,
                              !.buffer[f.index + 1] =
                                  FAdd(input, FMul(filterstore, f.feedback)),
                              !.index = (f.index + 1) % Len(f.buffer)],
         out |-> output]

\* AllpassFilter::new
AllpassNew(size) ==
    [buffer |-> [i \in 1..size |-> <<0, 1>>], index |-> 0, feedback |-> <<1, 2>>]

\* AllpassFilter::process
AllpassProcess(f, input) ==
    LET bufout == f.buffer[f.index + 1]
    IN  [filter |-> [f EXCEPT !.buffer[f.index + 1] =
                                  FAdd(input, FMul(bufout, f.feedback)),
                              !.index = (f.index + 1) % Len(f.buffer)],
         out |-> FSub(bufout, input)]

COMB_TUNING == <<1116, 1188, 1277, 1356, 1422, 1491, 1557, 1617>>
ALLPASS_TUNING == <<556, 441, 341, 225>>
STEREO_SPREAD == 23

\* Reverb::update_parameters
UpdateParameters(r) ==
    LET feedback == RAdd(RMul(r.room_size, <<7, 25>>), <<7, 10>>)
        set(comb) == [comb EXCEPT !.feedback = feedback, !.damp1 = r.damping,
                                  !.damp2 = RSub(<<1, 1>>, r.damping)]
    IN  [r EXCEPT !.comb_l = [i \in DOMAIN r.comb_l |-> set(r.comb_l[i])],
                  !.comb_r = [i \in DOMAIN r.comb_r |-> set(r.comb_r[i])]]

\* Reverb::new, for a sample rate that gives every filter a slot (196 or
\* more; below it process indexes an empty buffer and panics)
ReverbNew(sample_rate) ==
    LET scale == <<sample_rate, 44100>>
        size_l(t) == AsUsize(RMul(RInt(t), scale))
        size_r(t) == AsUsize(RAdd(RMul(RInt(t), scale), RInt(STEREO_SPREAD)))
    IN  UpdateParameters(
            [kind |-> "Reverb",
             comb_l |-> [i \in 1..8 |-> CombNew(size_l(COMB_TUNING[i]), <<21, 25>>, <<1, 5>>)],
             comb_r |-> [i \in 1..8 |-> CombNew(size_r(COMB_TUNING[i]), <<21, 25>>, <<1, 5>>)],
             allpass_l |-> [i \in 1..4 |-> AllpassNew(size_l(ALLPASS_TUNING[i]))],
             allpass_r |-> [i \in 1..4 |-> AllpassNew(size_r(ALLPASS_TUNING[i]))],
             room_size |-> <<1, 2>>, damping |-> <<1, 2>>, mix |-> <<3, 10>>,
             width |-> <<1, 1>>, gain |-> <<3, 200>>])

\* Reverb::with_params
ReverbWithParams(sample_rate, room_size, damping, mix) ==
    UpdateParameters([ReverbNew(sample_rate) EXCEPT
        !.room_size = Clamp(room_size, <<0, 1>>, <<1, 1>>),
        !.damping = Clamp(damping, <<0, 1>>, <<1, 1>>),
        !.mix = Clamp(mix, <<0, 1>>, <<1, 1>>)])

\* lines 205-210: the sum of what the first k comb filters return for input,
\* added in their order
RECURSIVE CombSum(_, _, _)
CombSum(combs, input, k) ==
    IF k = 0 THEN <<0, 1>>
    ELSE FAdd(CombSum(combs, input, k - 1), CombProcess(combs[k], input).out)

\* lines 213-218: the sample that leaves the k-th allpass filter of the series
RECURSIVE AllpassSeries(_, _, _)
AllpassSeries(allpasses, x, k) ==
    IF k = 0 THEN x
    ELSE AllpassProcess(allpasses[k], AllpassSeries(allpasses, x, k - 1)).out

\* Reverb::process
ReverbProcess(r, left, right) ==
    LET input == FMul(FAdd(left, right), r.gain)
        sum_l == CombSum(r.comb_l, input, Len(r.comb_l))
        sum_r == CombSum(r.comb_r, input, Len(r.comb_r))
        out_l == AllpassSeries(r.allpass_l, sum_l, Len(r.allpass_l))
        out_r == AllpassSeries(r.allpass_r, sum_r, Len(r.allpass_r))
        wet1 == FAdd(FMul(r.width, <<1, 2>>), <<1, 2>>)
        wet2 == FMul(FSub(<<1, 1>>, r.width), <<1, 2>>)
        wet_l == FAdd(FMul(out_l, wet1), FMul(out_r, wet2))
        wet_r == FAdd(FMul(out_r, wet1), FMul(out_l, wet2))
        dry == FSub(<<1, 1>>, r.mix)
    IN  [effect |-> [r EXCEPT
            !.comb_l = [i \in DOMAIN r.comb_l |-> CombProcess(r.comb_l[i], input).filter],
            !.comb_r = [i \in DOMAIN r.comb_r |-> CombProcess(r.comb_r[i], input).filter],
            !.allpass_l = [i \in DOMAIN r.allpass_l |->
                AllpassProcess(r.allpass_l[i], AllpassSeries(r.allpass_l, sum_l, i - 1)).filter],
            !.allpass_r = [i \in DOMAIN r.allpass_r |->
                AllpassProcess(r.allpass_r[i], AllpassSeries(r.allpass_r, sum_r, i - 1)).filter]],
         wet |-> <<wet_l, wet_r>>,
         out |-> <<FAdd(FMul(left, dry), FMul(wet_l, r.mix)),
                   FAdd(FMul(right, dry), FMul(wet_r, r.mix))>>]

\* the effect after effect.process(left, right), the wet pair and the pair
\* returned
EffectProcessed(e, left, right) ==
    CASE e.kind = "Delay" -> DelayProcess(e, left, right)
      [] e.kind = "Chorus" -> ChorusProcess(e, left, right)
      [] e.kind = "Reverb" -> ReverbProcess(e, left, right)

\* effect.process(left, right)
EffectProcess(left, right) ==
    /\ pc = "client"
    /\ effect # None
    /\ Len(log.ins) < MaxSamples
    /\ effect' = EffectProcessed(effect, left, right).effect
    /\ log' = [ins |-> Append(log.ins, <<left, right>>),
               wets |-> Append(log.wets, EffectProcessed(effect, left, right).wet),
               outs |-> Append(log.outs, EffectProcessed(effect, left, right).out)]
    /\ UNCHANGED <<render_vars, last_units, first_units, composite, engine, mixer, stereo>>

\* no other object than an effect
OnlyEffect ==
    /\ NoRender
    /\ NoLastUnits
    /\ envelope = None
    /\ voice = None
    /\ sampler_voice = None
    /\ group = None
    /\ composite = None
    /\ engine = None
    /\ mixer = None
    /\ stereo = None
    /\ log = [ins |-> <<>>, wets |-> <<>>, outs |-> <<>>]

\* fully wet delays of 0 to 3 samples in a buffer of 4, with no, half and
\* quarter feedback
InitDelay ==
    /\ OnlyEffect
    /\ effect \in {DelayWithParams(SampleRate, <<3, 100>>, <<t, 100>>, f, <<1, 1>>) :
                      t \in 0..3, f \in {<<0, 1>>, <<1, 2>>, <<1, 4>>}}

\* the caller passes a unit sample or silence
NextDelay ==
    \E x \in {<<0, 1>>, <<1, 1>>} : EffectProcess(x, x)

SpecDelay == InitDelay /\ [][NextDelay]_vars

RECURSIVE RPow(_, _)
RPow(f, k) == IF k = 0 THEN <<1, 1>> ELSE RMul(f, RPow(f, k - 1))

\* the samples passed so far are a unit impulse followed by silence
ImpulseThenSilence ==
    /\ log.ins # <<>>
    /\ log.ins[1] = <<<<1, 1>>, <<1, 1>>>>
    /\ \A n \in 2..Len(log.ins) : log.ins[n] = <<<<0, 1>>, <<0, 1>>>>

\* C29: a fully wet Delay of D >= 1 samples with feedback f that is passed a
\* unit impulse and then silence returns f^(k-1) at sample k * D, for every
\* k >= 1, and 0 at every other sample (sample 0 included); with f = 0 the
\* impulse comes back once, at sample D
C29_ImpulseEchoes ==
    (/\ effect # None /\ effect.kind = "Delay" /\ effect.mix = <<1, 1>>
     /\ DelaySamples(effect) >= 1 /\ ImpulseThenSilence) =>
        \A n \in 1..Len(log.outs) :
            LET sample == n - 1
                D == DelaySamples(effect)
                echo == IF sample > 0 /\ sample % D = 0
                        THEN RPow(effect.feedback, sample \div D - 1)
                        ELSE <<0, 1>>
            IN  log.outs[n] = <<echo, echo>>

\* a delay of 3 samples with feedback 1/2 has returned the impulse at sample
\* 3 and its second echo, 1/2, at sample 6
C29_Witness ==
    /\ effect # None /\ effect.kind = "Delay" /\ effect.mix = <<1, 1>>
    /\ DelaySamples(effect) = 3
    /\ ImpulseThenSilence
    /\ Len(log.outs) = 7
    /\ log.outs[4] = <<<<1, 1>>, <<1, 1>>>>
    /\ log.outs[7] = <<<<1, 2>>, <<1, 2>>>>


----------------------------------------------------------------------------
(* The three effects with mix = 0.0.                                         *)

\* samples the caller passes: a unit sample, f32::MAX and f32::MIN
DrySamples == {<<1, 1>>, <<F32Max, 1>>, <<-F32Max, 1>>}

\* dry effects: delays of 0 and 2 samples without and with feedback; a
\* chorus with a still delay of 1.5 samples, and one (at 40 Hz, delay set to
\* 30 ms) whose delay swings over 1.0, 1.2 and 1.6 samples; reverbs (at
\* 200 Hz, comb filters of 5 to 7 and 28 to 30 samples) without and with
\* damping
DryEffects ==
    {DelayWithParams(SampleRate, <<3, 100>>, <<t, 100>>, f, <<0, 1>>) :
        t \in {0, 2}, f \in {<<0, 1>>, <<1, 2>>}}
    \cup {ChorusWithParams(SampleRate, <<3, 2>>, <<0, 1>>, <<0, 1>>),
          [ChorusWithParams(40, <<10, 1>>, <<1, 100>>, <<0, 1>>)
              EXCEPT !.delay = <<3, 100>>]}
    \cup {ReverbWithParams(200, <<0, 1>>, <<0, 1>>, <<0, 1>>),
          ReverbWithParams(200, <<1, 2>>, <<1, 2>>, <<0, 1>>)}

InitDry ==
    /\ OnlyEffect
    /\ effect \in DryEffects

NextDry ==
    \E x \in DrySamples : EffectProcess(x, x)

SpecDry == InitDry /\ [][NextDry]_vars

\* C30 as stated: with mix = 0.0, every process call of a Chorus, Delay or
\* Reverb returns the pair it was passed, for every input sequence and every
\* setting of the other parameters
C30_Original ==
    (effect # None /\ effect.mix = <<0, 1>>) =>
        \A n \in 1..Len(log.outs) : log.outs[n] = log.ins[n]

\* C30 for the calls whose wet pair is finite: only a wet sample that is an
\* infinity or NaN (times 0.0 it is NaN) keeps the dry effect from returning
\* its input
C30_WhenWetFinite ==
    (effect # None /\ effect.mix = <<0, 1>>) =>
        \A n \in 1..Len(log.outs) :
            (IsFinite(log.wets[n][1]) /\ IsFinite(log.wets[n][2]))
                => log.outs[n] = log.ins[n]

\* a dry effect of the given kind has returned a pair other than its input
DryFails(kind) ==
    /\ effect # None
    /\ effect.kind = kind
    /\ \E n \in 1..Len(log.outs) : log.outs[n] # log.ins[n]

----------------------------------------------------------------------------
(* Oscillator (dsp/oscillator.rs), driven by its caller.  osc is [waveform,  *)
(* frequency, detune, phase, sample_rate], f64 values kept as exact          *)
(* rationals; log is [calls, sample]: the number of next_sample calls made   *)
(* and the sample the last one returned.                                     *)

\* most next_sample calls made on one oscillator
MaxOscCalls == 6

RDiv(a, b) == RNorm(<<a[1] * b[2], a[2] * b[1]>>)

\* f64 remainder a % b for b > 0: the result has the sign of a, and is NaN
\* for an infinite a
RRem(a, b) ==
    IF a[2] = 0 THEN <<0, 0>>
    ELSE IF a[1] >= 0 THEN RMod(a, b)
    ELSE RSub(<<0, 1>>, RMod(<<-a[1], a[2]>>, b))

\* Oscillator::new
OscillatorNew(waveform, sample_rate) ==
    [waveform |-> waveform, frequency |-> <<440, 1>>, detune |-> 0,
     phase |-> <<0, 1>>, sample_rate |-> sample_rate]

\* Oscillator::effective_freq, for a detune of whole semitones (2^(k/12) as
\* in sample_playback_rate)
effective_freq(o) == RMul(o.frequency, Pow2Twelfths(o.detune \div 100))

\* Oscillator::phase_inc
phase_inc(o) == RDiv(effective_freq(o), RInt(o.sample_rate))

\* poly_blep
poly_blep(t, dt) ==
    IF RLess(t, dt)
    THEN LET u == RDiv(t, dt)
         IN  RSub(RSub(RMul(<<2, 1>>, u), RMul(u, u)), <<1, 1>>)
    ELSE IF RLess(RSub(<<1, 1>>, dt), t)
    THEN LET u == RDiv(RSub(t, <<1, 1>>), dt)
         IN  RAdd(RAdd(RMul(u, u), RMul(<<2, 1>>, u)), <<1, 1>>)
    ELSE <<0, 1>>

\* Oscillator::sine (the sine of an infinity is NaN)
OscSine(o) ==
    IF o.phase[2] = 0 THEN <<0, 0>> ELSE Sin2Pi(RRem(o.phase, <<1, 1>>))

\* Oscillator::sawtooth
OscSawtooth(o, inc) ==
    RSub(RSub(RMul(<<2, 1>>, o.phase), <<1, 1>>), poly_blep(o.phase, inc))

\* Oscillator::square
OscSquare(o, inc) ==
    LET value == IF RLess(o.phase, <<1, 2>>) THEN <<1, 1>> ELSE <<-1, 1>>
    IN  RSub(RAdd(value, poly_blep(o.phase, inc)),
             poly_blep(RRem(RAdd(o.phase, <<1, 2>>), <<1, 1>>), inc))

\* Oscillator::triangle
OscTriangle(o, inc) ==
    IF RLess(o.phase, <<1, 2>>)
    THEN RSub(RMul(<<4, 1>>, o.phase), <<1, 1>>)
    ELSE RSub(<<3, 1>>, RMul(<<4, 1>>, o.phase))

\* lines 56-58: if self.phase >= 1.0 { self.phase -= 1.0 }
WrapPhase(phase) ==
    IF RLeq(<<1, 1>>, phase) THEN RSub(phase, <<1, 1>>) ELSE phase

\* Oscillator::next_sample: the oscillator after the call and the sample
OscNextSample(o) ==
    LET inc == phase_inc(o)
    IN  [osc |-> [o EXCEPT !.phase = WrapPhase(RAdd(o.phase, inc))],
         sample |-> CASE o.waveform = "Sine" -> OscSine(o)
                      [] o.waveform = "Sawtooth" -> OscSawtooth(o, inc)
                      [] o.waveform = "Square" -> OscSquare(o, inc)
                      [] o.waveform = "Triangle" -> OscTriangle(o, inc)]

\* frequencies the caller writes to the pub field: none, below the sample
\* rate, the sample rate itself, and above it
OscFrequencies == {0, 25, 30, 50, 100, 130, 250}

\* detunes the caller writes to the pub field, in cents
OscDetunes == {0, 1200, -1200}

\* none of the objects of the earlier sections
NoEarlierUnits ==
    /\ envelope = None
    /\ voice = None
    /\ sampler_voice = None
    /\ group = None
    /\ NoLaterUnits

InitOsc ==
    /\ NoRender
    /\ NoEarlierUnits
    /\ osc \in {[OscillatorNew(w, SampleRate) EXCEPT !.frequency = RInt(f),
                                                      !.detune = d] :
                   w \in {"Sine", "Square", "Sawtooth", "Triangle"},
                   f \in OscFrequencies, d \in OscDetunes}
    /\ pcm = None
    /\ compiler = None
    /\ log = [calls |-> 0, sample |-> None]

\* osc.next_sample()
OscNext ==
    /\ pc = "client"
    /\ osc # None
    /\ log.calls < MaxOscCalls
    /\ osc' = OscNextSample(osc).osc
    /\ log' = [calls |-> log.calls + 1, sample |-> Some(OscNextSample(osc).sample)]
    /\ UNCHANGED <<render_vars, first_units, later_units, pcm, compiler>>

\* osc.reset()
OscReset ==
    /\ pc = "client"
    /\ osc # None
    /\ osc' = [osc EXCEPT !.phase = <<0, 1>>]
    /\ UNCHANGED <<render_vars, first_units, later_units, pcm, compiler, log>>

NextOsc == OscNext \/ OscReset

SpecOsc == InitOsc /\ [][NextOsc]_vars

\* the phase lies in [0, 1)
PhaseInRange(o) == RLeq(<<0, 1>>, o.phase) /\ RLess(o.phase, <<1, 1>>)

\* C31 as stated: after every next_sample call the phase lies in [0, 1), for
\* every frequency, detune and sample rate, frequencies at or above the
\* sample rate included
C31_Original ==
    (osc # None /\ log.calls > 0) => PhaseInRange(osc)

\* C31 for a phase increment in [0, 1]: an effective frequency from 0 to the
\* sample rate
C31_WhenBelowRate ==
    (/\ osc # None
     /\ RLeq(<<0, 1>>, phase_inc(osc))
     /\ RLeq(phase_inc(osc), <<1, 1>>)) => PhaseInRange(osc)

----------------------------------------------------------------------------
(* render_pcm_i16 (engine.rs 595-604) on the mono buffer that render         *)
(* returned.  pcm is [mono, stereo]: the f64 samples, exact rationals or NaN *)
(* <<0, 0>>, and the Vec<i16> being filled.                                  *)

\* longest mono buffer converted
MaxMono == 2

I16Min == -32768
I16Max == 32767

\* A faulty rounding that drops the fraction, which C32_RoundedPairs must
\* tell apart
F64Trunc(x) ==
    IF x[2] = 0 THEN x
    ELSE RInt(Sign(x[1]) * (Abs(x[1]) \div x[2]))

\* f64::round: to the nearest integer, halves away from zero
F64Round(x) ==
    IF x[2] = 0 THEN x
    ELSE RInt(Sign(x[1]) * ((2 * Abs(x[1]) + x[2]) \div (2 * x[2])))

\* `as i16` on an f64: NaN gives 0, the rest is truncated and saturates
CastI16(x) ==
    IF x = <<0, 0>> THEN 0
    ELSE IF x[2] = 0 THEN (IF x[1] > 0 THEN I16Max ELSE I16Min)
    ELSE Max(I16Min, Min(I16Max, Sign(x[1]) * (Abs(x[1]) \div x[2])))

\* line 599: (s * 32767.0).round().clamp(-32768.0, 32767.0) as i16
PcmSample(s) ==
    CastI16(Clamp(F64Round(RMul(s, RInt(I16Max))), RInt(I16Min), RInt(I16Max)))

\* samples of a mono buffer: silence, full scale, half scale, samples whose
\* scaled value is 1/2, -1/2, 3/2 and 32766.5, a third, and NaN
PcmSamples ==
    {<<0, 1>>, <<1, 1>>, <<-1, 1>>, <<1, 2>>, <<-1, 2>>, <<1, 65534>>,
     <<-1, 65534>>, <<3, 65534>>, <<65533, 65534>>, <<1, 3>>, <<0, 0>>}

RECURSIVE PcmSeqs(_)
PcmSeqs(n) ==
    IF n = 0 THEN {<<>>}
    ELSE PcmSeqs(n - 1)
         \cup {Append(q, s) : q \in {p \in PcmSeqs(n - 1) : Len(p) = n - 1},
                              s \in PcmSamples}

InitPcm ==
    /\ NoRender
    /\ NoEarlierUnits
    /\ osc = None
    /\ pcm \in [mono : PcmSeqs(MaxMono), stereo : {<<>>}]
    /\ compiler = None
    /\ log = None

\* one turn of the loop of lines 598-602
PcmPush ==
    /\ pc = "client"
    /\ pcm # None
    /\ Len(pcm.stereo) < 2 * Len(pcm.mono)
    /\ LET sample == PcmSample(pcm.mono[Len(pcm.stereo) \div 2 + 1])
       IN  pcm' = [pcm EXCEPT !.stereo = pcm.stereo \o <<sample, sample>>]
    /\ UNCHANGED <<render_vars, first_units, later_units, osc, compiler, log>>

NextPcm == PcmPush

SpecPcm == InitPcm /\ [][NextPcm]_vars

\* render_pcm_i16 has returned
PcmReturned == pcm # None /\ Len(pcm.stereo) = 2 * Len(pcm.mono)

\* v is an integer nearest to x, the one away from zero of the two when x
\* lies halfway
NearestTo(v, x) ==
    LET gap == RSub(RInt(v), x)
    IN  /\ 2 * Abs(gap[1]) <= gap[2]
        /\ 2 * Abs(gap[1]) = gap[2] => Abs(v) * x[2] > Abs(x[1])

\* C32: render_pcm_i16 returns 2N values for a mono render of N samples;
\* elements 2i and 2i+1 are the same i16, which for a sample s_i that is a
\* number is 32767 * s_i rounded to the nearest integer (halves away from
\* zero) and clamped to [-32768, 32767]; no value lies outside the i16 range
C32_RoundedPairs ==
    PcmReturned =>
        \A i \in 1..Len(pcm.mono) :
            LET l == pcm.stereo[2 * i - 1]
                r == pcm.stereo[2 * i]
                x == RMul(pcm.mono[i], RInt(I16Max))
            IN  /\ l = r
                /\ l \in I16Min..I16Max
                /\ x[2] # 0 =>
                      IF RLess(RInt(I16Max), x) THEN l = I16Max
                      ELSE IF RLess(x, RInt(I16Min)) THEN l = I16Min
                      ELSE NearestTo(l, x)

\* a buffer of two samples has been converted, one of them halfway between
\* two integers when scaled
C32_Witness ==
    /\ PcmReturned
    /\ Len(pcm.mono) = 2
    /\ pcm.mono[1] = <<65533, 65534>>
    /\ pcm.stereo[1] = 32767
    /\ pcm.mono[2] = <<-1, 65534>>
    /\ pcm.stereo[4] = -1

----------------------------------------------------------------------------
(* The samples render mixes (engine.rs 497-522): oscillator voices, the      *)
(* Mixer and the output buffer, block by block.  voice is [voices], the      *)
(* Vec<ActiveVoice>, each voice with a history field g_off (it was sent      *)
(* note_off); mixer, the Mixer; log is [output, finite]: the samples copied  *)
(* to the output buffer so far, and whether every note's frequency is        *)
(* finite.  f64 values are exact rationals, <<1, 0>> and <<-1, 0>> the       *)
(* infinities, <<0, 0>> NaN; tanh is kept unevaluated.                       *)

\* longest block mixed, and most samples written to the output buffer
MaxBlockLen == 2
MaxOutput == 4

\* 2^F64MaxExp is beyond f64::MAX: powf returns infinity
F64MaxExp == 1024

\* the f64 a frequency tuning_pitch * 2^((midi - 69) / 12) stands for
FrequencyValue(f) ==
    IF (f.midi - 69) \div 12 >= F64MaxExp THEN <<1, 0>>
    ELSE RMul(RInt(f.tuning), Pow2Twelfths(f.midi - 69))

\* the voice's oscillator after n calls of next_sample since its reset
RECURSIVE OscAfter(_, _)
OscAfter(o, n) == IF n = 0 THEN o ELSE OscNextSample(OscAfter(o, n - 1)).osc

\* the oscillator of an oscillator voice
VoiceOscillator(v) ==
    OscAfter([OscillatorNew(v.waveform, SampleRate) EXCEPT
                 !.frequency = FrequencyValue(v.frequency), !.detune = v.detune],
             v.osc_n)

\* Voice::next_sample: the value returned, osc * env * self.velocity
VoiceSampleValue(v) ==
    IF v.finished THEN <<0, 1>>
    ELSE RMul(RMul(OscNextSample(VoiceOscillator(v)).sample,
                   EnvNextSample(v.envelope).level),
              v.velocity)

\* lines 507-510: the voice after this_block calls of next_sample, and the
\* mixer after the add of each value returned, from index i on
RECURSIVE MixVoice(_, _, _, _)
MixVoice(v, m, i, this_block) ==
    IF i >= this_block THEN [voice |-> v, mixer |-> m]
    ELSE MixVoice(VoiceNextSample(v), MixerAdd(m, i, VoiceSampleValue(v)),
                  i + 1, this_block)

\* lines 505-512: the voices and the mixer after the first k voices were
\* rendered into the mixer
RECURSIVE MixVoices(_, _, _, _)
MixVoices(vs, m, k, this_block) ==
    IF k = 0 THEN [voices |-> vs, mixer |-> m]
    ELSE LET before == MixVoices(vs, m, k - 1, this_block)
             mixed == IF VoiceIsFinished(vs[k])
                      THEN [voice |-> vs[k], mixer |-> before.mixer]
                      ELSE MixVoice(vs[k], before.mixer, 0, this_block)
         IN  [voices |-> [before.voices EXCEPT ![k] = mixed.voice],
              mixer |-> mixed.mixer]

\* notes played by oscillator voices at full velocity: A2 and A3, and C1100,
\* whose frequency is infinite; as a triangle, a sawtooth or a square; with
\* the default envelope or one that falls to a sustain of 0 at once
MixdownNotes ==
    {NoteEvent(<<0, 1>>, p, 127, <<1, 1>>,
               [Instrument(None, None) EXCEPT !.waveform = w, !.attack = e[1],
                                              !.decay = e[2], !.sustain = e[3]]) :
        p \in {<<"A", "2">>, <<"A", "3">>, <<"C", "1", "1", "0", "0">>},
        w \in {"triangle", "sawtooth", "square"},
        e \in {<<None, None, None>>, <<Some(<<0, 1>>), Some(<<0, 1>>), Some(<<0, 1>>)>>}}

\* the voice render makes for a note (lines 486-491), the track tuned to an
\* A4 of SampleRate Hz (A2 and A3 are a quarter and a half of a cycle per
\* sample)
MixdownVoice(evt) ==
    OscillatorVoice(ScheduledNote(evt, 1, DefaultBpm, SampleRate))
        @@ [g_off |-> FALSE]

\* the notes that sound together: one note, or one note over a triangle
\* with the default envelope
MixdownChords ==
    {<<MixdownVoice(a)>> : a \in MixdownNotes}
    \cup {<<MixdownVoice(a), MixdownVoice(b)>> :
             a \in MixdownNotes,
             b \in {n \in MixdownNotes : /\ n.instrument.waveform = "triangle"
                                        /\ n.instrument.attack = None}}

InitMixdown ==
    /\ NoRender
    /\ NoLastUnits
    /\ envelope = None
    /\ voice \in [voices : MixdownChords]
    /\ sampler_voice = None
    /\ group = None
    /\ composite = None
    /\ engine = None
    /\ mixer = MixerNew
    /\ effect = None
    /\ stereo = None
    /\ log = [output |-> <<>>,
              finite |-> \A i \in 1..Len(voice.voices) :
                            IsFinite(FrequencyValue(voice.voices[i].frequency))]

\* lines 498-502, for a voice whose release_sample lies in the block
MixdownNoteOff(i) ==
    /\ pc = "client"
    /\ voice # None
    /\ i \in 1..Len(voice.voices)
    /\ ~voice.voices[i].g_off
    /\ voice' = [voice EXCEPT !.voices[i] = [VoiceNoteOff(@) EXCEPT !.g_off = TRUE]]
    /\ UNCHANGED <<render_vars, last_units, envelope, sampler_voice, group,
                   composite, engine, mixer, effect, stereo, log>>

\* lines 504-522 for a block of this_block samples: the voices are rendered
\* into the mixer, its output is copied and the finished voices are removed
MixdownBlock(this_block) ==
    /\ pc = "client"
    /\ voice # None
    /\ Len(log.output) + this_block <= MaxOutput
    /\ LET mixed == MixVoices(voice.voices, MixerClear(mixer, this_block),
                              Len(voice.voices), this_block)
       IN  /\ mixer' = mixed.mixer
           /\ voice' = [voice EXCEPT !.voices =
                           SelectSeq(mixed.voices, LAMBDA v : ~VoiceIsFinished(v))]
           /\ log' = [log EXCEPT !.output = @ \o MixerOutput(mixed.mixer)]
    /\ UNCHANGED <<render_vars, last_units, envelope, sampler_voice, group,
                   composite, engine, effect, stereo>>

NextMixdown ==
    \/ \E i \in 1..2 : MixdownNoteOff(i)
    \/ \E n \in 1..MaxBlockLen : MixdownBlock(n)

SpecMixdown == InitMixdown /\ [][NextMixdown]_vars

\* |s| <= 1.0 for a sample s = tanh(x): tanh takes every number, the
\* infinities included, into [-1, 1], and NaN to NaN, of which no comparison
\* holds
WithinUnit(s) == s[2] # <<0, 0>>

\* C33 as stated: every sample that render copies from Mixer.output has an
\* absolute value of at most 1.0, however many voices overlap
C33_Original ==
    (voice # None /\ mixer # None) =>
        \A n \in 1..Len(log.output) : WithinUnit(log.output[n])

\* C33 for notes whose frequency is finite
C33_WhenFinite ==
    (voice # None /\ mixer # None /\ log.finite) =>
        \A n \in 1..Len(log.output) : WithinUnit(log.output[n])

----------------------------------------------------------------------------
(* The order of activation (engine.rs 375-376, 428-495)                     *)

\* the scheduled notes stand in ascending start_sample order, notes of equal
\* start in the order of their events
StartOrder ==
    \A i, j \in 1..Len(scheduled) :
        i < j =>
            \/ scheduled[i].start_sample < scheduled[j].start_sample
            \/ /\ scheduled[i].start_sample = scheduled[j].start_sample
               /\ scheduled[i].g_event < scheduled[j].g_event

\* the notes come up one by one in the order of the list: next_note_idx
\* moves by one at a time, and a note that came up has a voice or was passed
\* over, never both, and no note has two voices
OneAtATime ==
    /\ [][next_note_idx' = next_note_idx \/ next_note_idx' = next_note_idx + 1]_vars
    /\ [](\A i \in 1..Len(AllVoices) :
             /\ AllVoices[i].g_note <= next_note_idx
             /\ AllVoices[i].g_note \notin dropped
             /\ \A j \in 1..Len(AllVoices) :
                   AllVoices[i].g_note = AllVoices[j].g_note => i = j)
    /\ [](\A n \in dropped : n <= next_note_idx)

\* a voice leaves the voice set only once it is finished
OnlyFinishedLeave ==
    [][\A i \in 1..Len(voices) :
          (\A j \in 1..Len(voices') : voices'[j].g_note # voices[i].g_note)
              => ActiveIsFinished(voices[i])]_vars

\* C34 as stated: every scheduled note is considered for activation exactly
\* once, so when render returns every note has come up.
C34_Original ==
    pc = "done" => next_note_idx = Len(scheduled)

\* C34, amended: the scheduled notes stand in ascending start_sample order
\* with ties in event-list order and come up in that order, each at most
\* once; when render returns, the notes that came up are exactly those that
\* start below the buffer length; a note passed over at the voice cap is
\* never given a voice later, and a voice is removed only once finished.
C34_OnceInOrder ==
    /\ [](StartOrder)
    /\ OneAtATime
    /\ OnlyFinishedLeave
    /\ [](pc = "done" =>
             \A n \in 1..Len(scheduled) :
                 n <= next_note_idx <=> scheduled[n].start_sample < total_samples)

\* a render that passed notes over at the cap, later had room again and gave
\* a later note its voice, over a list with notes of equal start
C34_Witness ==
    /\ pc = "done"
    /\ dropped # {}
    /\ \E i \in 1..Len(AllVoices) : \A n \in dropped : AllVoices[i].g_note > n
    /\ \E i, j \in 1..Len(scheduled) :
          i # j /\ scheduled[i].start_sample = scheduled[j].start_sample

----------------------------------------------------------------------------
(* The block loop (engine.rs 416-426, 515-527).  A render call that has     *)
(* started takes its next step: the steps of render are weakly fair.        *)

\* event lists of one event, of a property and one more event, and the
\* chords that fill the voice pool
LiveSeqs ==
    {q \in EventSeqs :
        \/ Len(q) = 1
        \/ Len(q) >= MaxVoices
        \/ Len(q) = 2 /\ q[1].kind = "SetProperty"}

InitLive ==
    /\ Init
    /\ event_list.events \in LiveSeqs

\* The steps of Next seen through pc and next_note_idx.  At every position
\* but "done" and "panic" one action of Next is enabled (the guards of the
\* actions of one position cover every case), and each step of Next moves pc
\* or, in the activation loop, next_note_idx by one.
position == <<pc, next_note_idx>>

Positions ==
    {"start", "collect", "length", "alloc", "block", "activate", "mix", "retain",
     "done", "panic"}

Advance ==
    /\ pc \notin {"done", "panic"}
    /\ pc' \in Positions
    /\ next_note_idx' \in {next_note_idx, next_note_idx + 1}

SpecLive == InitLive /\ [][Next]_vars /\ WF_position(Advance)

\* the blocks follow one another from 0: a block starts where the one before
\* it ended, below the total length, and is BlockSize long or ends the buffer
BlocksPartition ==
    /\ [](pc \in {"activate", "mix", "retain"} =>
             /\ block_start % BlockSize = 0
             /\ block_start < total_samples
             /\ block_end = Min(block_start + BlockSize, total_samples))
    /\ [][block_start' # block_start =>
             pc = "retain" /\ block_start' = block_end]_vars
    /\ [](pc = "block" => block_start % BlockSize = 0 \/ block_start = total_samples)

\* the returned buffer has total_samples entries and the blocks covered it;
\* with a total length of 0 no block was begun
BufferCovered ==
    /\ [](pc = "done" =>
             /\ output_len = Some(total_samples)
             /\ block_start = total_samples)
    /\ [][pc' = "activate" /\ pc = "block" => total_samples > 0]_vars

\* C35 as stated: render returns, after consecutive blocks of BlockSize
\* samples (the last one possibly shorter) that partition [0, total_samples);
\* with total length 0 it returns an empty buffer and begins no block.
C35_Original ==
    /\ <>(pc = "done")
    /\ BlocksPartition
    /\ BufferCovered

\* the same, with a render call that ends in a panic counted as ended
C35_UnlessPanic ==
    /\ <>(pc \in {"done", "panic"})
    /\ BlocksPartition
    /\ BufferCovered


----------------------------------------------------------------------------
(* The release of the SamplerEnvelope (sampler.rs 188-239), under           *)
(* SpecSampler                                                              *)

\* next_sample was called on a voice whose envelope is in Release, and did
\* not raise the envelope's level
ReleaseStepFalls ==
    (/\ log'.op = "next_sample"
     /\ ~sampler_voice.finished
     /\ sampler_voice.envelope.state = "Release") =>
        RLeq(sampler_voice'.envelope.level, sampler_voice.envelope.level)

\* C36 as stated: from note_off on, no next_sample call raises the level of
\* the voice's envelope, so that it never exceeds the level it had at
\* note_off: the first sample of the release is not above the level at
\* which note_off found the envelope.
C36_Original == [][ReleaseStepFalls]_vars

\* the same from the second sample of a release on
C36_AfterFirstSample ==
    [][sampler_voice.envelope.samples_in_state >= 1 => ReleaseStepFalls]_vars

----------------------------------------------------------------------------
(* What a Delay without feedback reads (delay.rs 52-83), under SpecDelay    *)

\* the pair read from the delay lines at every call so far is the pair
\* passed DelaySamples calls earlier, silence before that
ReadsInputOf(d) ==
    \A n \in 1..Len(log.wets) :
        log.wets[n] = IF n - DelaySamples(d) >= 1
                      THEN log.ins[n - DelaySamples(d)]
                      ELSE <<<<0, 1>>, <<0, 1>>>>

\* C37 as stated: a Delay with feedback 0 and a delay of D samples, D from 0
\* to buffer length - 1, reads at sample n the input of sample n - D
\* (silence when n < D); with D = 0 it reads the current input.
C37_Original ==
    (effect # None /\ effect.kind = "Delay" /\ effect.feedback = <<0, 1>>) =>
        ReadsInputOf(effect)

\* the same for delays of at least one sample
C37_WhenDelayed ==
    (/\ effect # None /\ effect.kind = "Delay" /\ effect.feedback = <<0, 1>>
     /\ DelaySamples(effect) >= 1) =>
        ReadsInputOf(effect)

----------------------------------------------------------------------------
(* trigger_note on a composite without children (composite.rs 62-122),      *)
(* under SpecTrigger                                                        *)

\* the call of SpecTrigger has been made on a composite with no children
TriggeredChildless ==
    /\ composite # None
    /\ log.op # "new"
    /\ composite.instrument.children = <<>>

\* C38 as stated: trigger_note on a composite with no children returns an
\* empty list and does not fail, whatever the mode and the split_points.
C38_Original ==
    TriggeredChildless => log.op = "trigger_note" /\ log.voices = <<>>

\* the same for every composite but a Split that has split_points; and a
\* call that returns, on any composite with no children, returns no voice
C38_UnlessSplitPoints ==
    TriggeredChildless =>
        /\ log.op = "trigger_note" => log.voices = <<>>
        /\ (composite.instrument.mode # "Split"
            \/ composite.instrument.split_points = None) => log.op = "trigger_note"

----------------------------------------------------------------------------
(* Loaded presets (lib.rs 109-208).  composite is [preset, midi_note,       *)
(* velocity]: a WasmLoadedPreset and the note played through it once it is  *)
(* registered; log is [op, registered, voices]: op is "new", then           *)
(* "build_preset" with the RegisteredPreset that was built, then            *)
(* "trigger_note" with the sampler voices the note started.                 *)

\* build_sampler_from_zones: a zone keeps its fields, its buffer made of its
\* samples
build_sampler_from_zones(zones, is_drum_kit) ==
    [zones |-> [i \in 1..Len(zones) |->
                   Zone(zones[i].key_range_low, zones[i].key_range_high,
                        zones[i].root_note, zones[i].sample_rate, zones[i].loop_start,
                        zones[i].loop_end, zones[i].buffer_len)],
     is_drum_kit |-> is_drum_kit]

\* build_composite_child, for a sampler child
build_composite_child(child) ==
    [kind |-> "Sampler",
     sampler |-> build_sampler_from_zones(child.zones, child.is_drum_kit)]

\* CompositeInstrument::new_layer and new_split
new_layer(children, mix_levels) ==
    [mode |-> "Layer", children |-> children, mix_levels |-> mix_levels,
     split_points |-> None]
new_split(children, split_points) ==
    [mode |-> "Split", children |-> children, mix_levels |-> None,
     split_points |-> split_points]

\* a Chain composite built directly, as the tests of composite.rs build one
DirectChain(children) ==
    [mode |-> "Chain", children |-> children, mix_levels |-> None,
     split_points |-> None]

\* the mode build_preset matches on (lines 185-189)
PresetMode(p) ==
    IF p.mode = Some("split") THEN "Split"
    ELSE IF p.mode = Some("chain") THEN "Chain"
    ELSE "Layer"

\* build_preset
build_preset(p) ==
    IF p.preset_type = Some("composite") \/ p.children # <<>>
    THEN LET children == [i \in 1..Len(p.children) |-> build_composite_child(p.children[i])]
         IN  [kind |-> "Composite",
              composite |->
                  CASE PresetMode(p) = "Layer" -> new_layer(children, p.mix_levels)
                    [] PresetMode(p) = "Split" -> new_split(children, None)
                    [] PresetMode(p) = "Chain" -> new_layer(children, None)]
    ELSE [kind |-> "Sampler",
          sampler |-> build_sampler_from_zones(p.zones, p.is_drum_kit)]

\* loaded sampler children on the keys 55..65, 60..72 and on every key
LoadedChildren ==
    {[type |-> "sampler", zones |-> <<z>>, is_drum_kit |-> FALSE] :
        z \in {ShortZone, LoopZone, OneShotZone}}

\* most children of a loaded preset
MaxLoaded == 2

LoadedPresets ==
    [name : {"p"},
     preset_type : {None, Some("composite"), Some("sampler")},
     is_drum_kit : {FALSE},
     zones : {<<>>, <<ShortZone>>},
     mode : {None, Some("layer"), Some("split"), Some("chain")},
     children : SeqsUpTo(LoadedChildren, MaxLoaded),
     mix_levels : {None, Some(<<<<1, 2>>>>)}]

InitLoad ==
    /\ NoRender
    /\ NoLastUnits
    /\ envelope = None
    /\ voice = None
    /\ sampler_voice = None
    /\ group = None
    /\ composite \in [preset : LoadedPresets, midi_note : {58, 64, 70},
                      velocity : {<<1, 1>>}]
    /\ engine = None
    /\ mixer = None
    /\ effect = None
    /\ stereo = None
    /\ log = [op |-> "new", registered |-> None, voices |-> <<>>]

\* lib.rs 233-236: the preset is built and registered
BuildPreset ==
    /\ pc = "client"
    /\ composite # None
    /\ log.op = "new"
    /\ log' = [log EXCEPT !.op = "build_preset",
                          !.registered = Some(build_preset(composite.preset))]
    /\ UNCHANGED <<render_vars, last_units, first_units, later_units>>

\* engine.rs 436-476: a note whose preset_ref names the registered preset
\* starts the sampler voices of that preset (none: an oscillator voice)
PlayLoaded ==
    /\ pc = "client"
    /\ composite # None
    /\ log.op = "build_preset"
    /\ log' = [log EXCEPT !.op = "trigger_note",
                          !.voices = trigger_child(Unwrap(log.registered),
                                                   composite.midi_note,
                                                   composite.velocity, DefaultTuning)]
    /\ UNCHANGED <<render_vars, last_units, first_units, later_units>>

NextLoad ==
    \/ BuildPreset
    \/ PlayLoaded

SpecLoad == InitLoad /\ [][NextLoad]_vars

\* the children build_preset makes of the preset's children
BuiltChildren ==
    [i \in 1..Len(composite.preset.children) |->
        build_composite_child(composite.preset.children[i])]

\* a composite preset whose mode is "chain" has been built
ChainLoaded ==
    /\ composite # None
    /\ log.op # "new"
    /\ composite.preset.mode = Some("chain")
    /\ Unwrap(log.registered).kind = "Composite"

\* C39 as stated: a loaded composite preset whose mode is "chain" is
\* registered as a Chain composite, and a note played through it starts the
\* voices that a Chain composite built directly of the same children starts:
\* those of the first child only.
C39_Original ==
    ChainLoaded =>
        /\ Unwrap(log.registered).composite.mode = "Chain"
        /\ log.op = "trigger_note" =>
              log.voices = trigger_note(DirectChain(BuiltChildren), composite.midi_note,
                                        composite.velocity, DefaultTuning)

\* what holds instead: the preset is registered as a Layer without
\* mix_levels, and the note starts the voices of every child
C39_ChainAsLayer ==
    ChainLoaded =>
        /\ Unwrap(log.registered).composite = new_layer(BuiltChildren, None)
        /\ log.op = "trigger_note" =>
              log.voices = ChainEvery(Unwrap(log.registered).composite,
                                      composite.midi_note, composite.velocity,
                                      DefaultTuning)


----------------------------------------------------------------------------
(* Track calls in the compiler (compiler.rs).  compiler is [ctx, program,   *)
(* next, status]: the CompileCtx, the statements of the program, the number *)
(* of top-level statements compiled and "new", "compiling", "ok" or "err".  *)
(* A Result is the CompileCtx with err set once an Err is returned, which   *)
(* every caller passes on (`?`).  History that the code does not have:      *)
(* ctx.g_calls, one record per call of a defined track that returned, with  *)
(* the caller's scope before and after it.  Maps are lists of <<key, value>>.*)

\* most top-level statements after the definitions of a program
MaxTop == 3

MapGet(m, k) ==
    IF \E i \in 1..Len(m) : m[i][1] = k
    THEN Some(m[CHOOSE i \in 1..Len(m) : m[i][1] = k][2])
    ELSE None
MapInsert(m, k, v) ==
    IF \E i \in 1..Len(m) : m[i][1] = k
    THEN [i \in 1..Len(m) |-> IF m[i][1] = k THEN <<k, v>> ELSE m[i]]
    ELSE Append(m, <<k, v>>)

RMax(a, b) == IF RLess(a, b) THEN b ELSE a

\* InstrumentConfig::default
DefaultInstrument == Instrument(None, None)

\* CompileCtx::new
CompileCtxNew ==
    [default_note_length |-> <<1, 1>>, end_mode |-> "Tail",
     current_instrument |-> DefaultInstrument, cursor |-> <<0, 1>>,
     max_cursor |-> <<0, 1>>, current_track_name |-> None, events |-> <<>>,
     track_defs |-> <<>>, consts |-> <<>>, param_bindings |-> <<>>,
     err |-> FALSE, g_calls |-> <<>>]

\* CompileCtx::emit
emit(ctx, kind) ==
    [ctx EXCEPT !.events = Append(@, [time |-> ctx.cursor, kind |-> kind,
                                      track_name |-> ctx.current_track_name])]

duration_to_beats(dur, dflt) ==
    CASE dur.kind = "Beats" -> dur.n
      [] dur.kind = "Inverse" -> RDiv(<<1, 1>>, dur.n)
      [] dur.kind = "Fraction" -> RDiv(dur.n, dur.m)
      [] dur.kind = "Dots" -> RMul(dflt, RInt(dur.count))

\* CompileCtx::resolve_duration
resolve_duration(ctx, dur) ==
    IF dur = None THEN ctx.default_note_length
    ELSE duration_to_beats(Unwrap(dur), ctx.default_note_length)

\* evaluate_instrument_expr: Some(config), or None for an Err
evaluate_instrument_expr(ctx, expr) ==
    CASE expr.kind = "Oscillator" ->
            Some([DefaultInstrument EXCEPT !.waveform = expr.type])
      [] expr.kind = "Identifier" ->
            IF MapGet(ctx.param_bindings, expr.name) # None
            THEN MapGet(ctx.param_bindings, expr.name)
            ELSE MapGet(ctx.consts, expr.name)
      [] expr.kind = "StringLit" ->
            Some([DefaultInstrument EXCEPT !.waveform = expr.s])
      [] OTHER -> None

\* compile_assignment, for the targets of the programs below
compile_assignment(ctx, target, value) ==
    CASE target = "track.noteLength" ->
            IF value.kind = "DurationLit"
            THEN [ctx EXCEPT !.default_note_length =
                                 duration_to_beats(value.d, ctx.default_note_length)]
            ELSE IF value.kind = "Number"
            THEN [ctx EXCEPT !.default_note_length = value.n]
            ELSE ctx
      [] target = "track.instrument" ->
            IF evaluate_instrument_expr(ctx, value) = None
            THEN [ctx EXCEPT !.err = TRUE]
            ELSE emit([ctx EXCEPT !.current_instrument =
                                      Unwrap(evaluate_instrument_expr(ctx, value))],
                      [kind |-> "SetProperty", target |-> target])
      [] OTHER -> emit(ctx, [kind |-> "SetProperty", target |-> target])

\* the five fields of the scope that inline_track_call saves (lines 512-516)
CallerScope(ctx) ==
    [cursor |-> ctx.cursor, default_note_length |-> ctx.default_note_length,
     current_instrument |-> ctx.current_instrument,
     param_bindings |-> ctx.param_bindings,
     current_track_name |-> ctx.current_track_name]

\* A faulty restore that leaves the default note length as the body set it,
\* which C40_CallerScopeKept must tell apart
RestoreWithoutLength(ctx, saved) ==
    [ctx EXCEPT !.cursor = saved.cursor,
                !.current_instrument = saved.current_instrument,
                !.param_bindings = saved.param_bindings,
                !.current_track_name = saved.current_track_name]

\* lines 543-549: the cursor and the parent scope are restored
RestoreScope(ctx, saved) ==
    [ctx EXCEPT !.cursor = saved.cursor,
                !.default_note_length = saved.default_note_length,
                !.current_instrument = saved.current_instrument,
                !.param_bindings = saved.param_bindings,
                !.current_track_name = saved.current_track_name]

\* lines 521-527: the bindings after the first k of zip(params, args), or
\* None once an argument does not evaluate
RECURSIVE BindArgs(_, _, _, _)
BindArgs(ctx, params, args, k) ==
    IF k = 0 THEN Some(ctx.param_bindings)
    ELSE LET before == BindArgs(ctx, params, args, k - 1)
             config == evaluate_instrument_expr(ctx, args[k])
         IN  IF before = None \/ config = None THEN None
             ELSE Some(MapInsert(Unwrap(before), params[k], Unwrap(config)))

TrackDefOf(ctx, name) ==
    IF \E i \in 1..Len(ctx.track_defs) : ctx.track_defs[i].name = name
    THEN Some(ctx.track_defs[CHOOSE i \in 1..Len(ctx.track_defs) :
                                /\ ctx.track_defs[i].name = name
                                /\ \A j \in 1..(i - 1) : ctx.track_defs[j].name # name])
    ELSE None

RECURSIVE inline_track_call(_, _)
RECURSIVE compile_track_body(_, _, _)
RECURSIVE compile_track_statement(_, _)

\* inline_track_call
inline_track_call(ctx, call) ==
    IF TrackDefOf(ctx, call.name) # None
    THEN LET def == Unwrap(TrackDefOf(ctx, call.name))
             saved == CallerScope(ctx)
             bound == BindArgs(ctx, def.params, call.args,
                               Min(Len(def.params), Len(call.args)))
             named == [ctx EXCEPT !.current_track_name = Some(call.name)]
         IN  IF bound = None THEN [named EXCEPT !.err = TRUE]
             ELSE LET done == compile_track_body(
                                  [named EXCEPT !.param_bindings = Unwrap(bound)],
                                  def.body, 1)
                      capped == IF call.play_duration = None THEN done
                                ELSE [done EXCEPT !.cursor =
                                         RAdd(saved.cursor,
                                              duration_to_beats(Unwrap(call.play_duration),
                                                                done.default_note_length))]
                      reached == [capped EXCEPT !.max_cursor = RMax(@, capped.cursor)]
                      restored == RestoreScope(reached, saved)
                      stepped == IF call.step = None THEN restored
                                 ELSE [restored EXCEPT !.cursor =
                                          RAdd(saved.cursor,
                                               duration_to_beats(Unwrap(call.step),
                                                                 restored.default_note_length))]
                  IN  IF done.err THEN done
                      ELSE [stepped EXCEPT !.g_calls =
                               Append(@, [name |-> call.name, step |-> call.step,
                                          before |-> CallerScope(ctx),
                                          after |-> CallerScope(stepped)])]
    ELSE LET started == emit(ctx, [kind |-> "TrackStart", track_name |-> call.name])
         IN  IF call.step = None THEN started
             ELSE [started EXCEPT !.cursor =
                      RAdd(@, duration_to_beats(Unwrap(call.step),
                                                ctx.default_note_length))]

\* compile_track_body, from statement i on
compile_track_body(ctx, body, i) ==
    IF i > Len(body) \/ ctx.err THEN ctx
    ELSE compile_track_body(compile_track_statement(ctx, body[i]), body, i + 1)

\* compile_track_statement
compile_track_statement(ctx, stmt) ==
    CASE stmt.kind = "NoteEvent" ->
            [emit(ctx, [kind |-> "Note", pitch |-> stmt.pitch,
                        gate |-> resolve_duration(ctx, stmt.audible_duration),
                        instrument |-> ctx.current_instrument])
                EXCEPT !.cursor = RAdd(@, resolve_duration(ctx, stmt.step_duration))]
      [] stmt.kind = "Rest" ->
            [ctx EXCEPT !.cursor =
                RAdd(@, duration_to_beats(stmt.duration, ctx.default_note_length))]
      [] stmt.kind = "Assignment" -> compile_assignment(ctx, stmt.target, stmt.value)
      [] stmt.kind = "TrackCall" -> inline_track_call(ctx, stmt)
      [] OTHER -> ctx

\* compile_statement
compile_statement(ctx, stmt) ==
    CASE stmt.kind = "TrackCall" -> inline_track_call(ctx, stmt)
      [] stmt.kind = "ConstDecl" ->
            IF evaluate_instrument_expr(ctx, stmt.value) = None
            THEN [ctx EXCEPT !.err = TRUE]
            ELSE [ctx EXCEPT !.consts =
                     MapInsert(@, stmt.name,
                               Unwrap(evaluate_instrument_expr(ctx, stmt.value)))]
      [] stmt.kind = "Assignment" -> compile_assignment(ctx, stmt.target, stmt.value)
      [] OTHER -> ctx

\* The programs: a constant, two track definitions and up to MaxTop more
\* statements.
Beats(n) == [kind |-> "Beats", n |-> <<n, 1>>]
Inverse(n) == [kind |-> "Inverse", n |-> <<n, 1>>]
Dots(count) == [kind |-> "Dots", count |-> count]
TrackCall(name, play_duration, args, step) ==
    [kind |-> "TrackCall", name |-> name, play_duration |-> play_duration,
     args |-> args, step |-> step]
Assign(target, value) == [kind |-> "Assignment", target |-> target, value |-> value]
Ident(name) == [kind |-> "Identifier", name |-> name]

\* const sq = Oscillator({type: 'square'});
\* track a() { C3 /4 }
\* track b(inst) { track.instrument = inst; track.noteLength = 1/2;
\*                 C2  a() 2;  a();  . }
ProgramHead ==
    << [kind |-> "ConstDecl", name |-> "sq",
        value |-> [kind |-> "Oscillator", type |-> "square"]],
       [kind |-> "TrackDef", name |-> "a", params |-> <<>>,
        body |-> <<[kind |-> "NoteEvent", pitch |-> "C3", audible_duration |-> None,
                    step_duration |-> Some(Inverse(4))]>>],
       [kind |-> "TrackDef", name |-> "b", params |-> <<"inst">>,
        body |-> <<Assign("track.instrument", Ident("inst")),
                   Assign("track.noteLength",
                          [kind |-> "DurationLit",
                           d |-> [kind |-> "Fraction", n |-> <<1, 1>>, m |-> <<2, 1>>]]),
                   [kind |-> "NoteEvent", pitch |-> "C2", audible_duration |-> None,
                    step_duration |-> None],
                   TrackCall("a", None, <<>>, Some(Beats(2))),
                   TrackCall("a", None, <<>>, None),
                   [kind |-> "Rest", duration |-> Dots(1)]>>] >>

TopPool ==
    { TrackCall("a", None, <<>>, None),
      TrackCall("a", None, <<>>, Some(Beats(8))),
      TrackCall("b", None, <<Ident("sq")>>, None),
      TrackCall("b", Some(Beats(1)), <<Ident("sq")>>, Some(Dots(2))),
      TrackCall("b", None, <<Ident("inst")>>, None),
      TrackCall("zz", None, <<>>, Some(Beats(1))),
      Assign("track.noteLength", [kind |-> "Number", n |-> <<2, 1>>]),
      Assign("track.instrument", [kind |-> "StringLit", s |-> "sine"]) }

\* ctx.events.sort_by(time), a stable sort
SortByTime(events) ==
    LET rank(j) == Cardinality({i \in 1..Len(events) :
                                   \/ RLess(events[i].time, events[j].time)
                                   \/ events[i].time = events[j].time /\ i <= j})
    IN  [k \in 1..Len(events) |->
            events[CHOOSE j \in 1..Len(events) : rank(j) = k]]

InitCompile ==
    /\ NoRender
    /\ NoEarlierUnits
    /\ osc = None
    /\ pcm = None
    /\ compiler \in {[ctx |-> CompileCtxNew, program |-> ProgramHead \o tops,
                      next |-> 0, status |-> "new"] : tops \in SeqsUpTo(TopPool, MaxTop)}
    /\ log = [op |-> "new"]

\* compile_inner, lines 246-255: the first pass collects the definitions
CollectTrackDefs ==
    /\ pc = "client"
    /\ compiler # None
    /\ compiler.status = "new"
    /\ compiler' = [compiler EXCEPT
          !.ctx.track_defs = SelectSeq(compiler.program,
                                       LAMBDA s : s.kind = "TrackDef"),
          !.status = "compiling"]
    /\ log' = [op |-> "collect"]
    /\ UNCHANGED <<render_vars, first_units, later_units, osc, pcm>>

\* compile_inner, lines 258-260: the next top-level statement; an Err ends
\* the compilation
CompileStatement ==
    /\ pc = "client"
    /\ compiler # None
    /\ compiler.status = "compiling"
    /\ compiler.next < Len(compiler.program)
    /\ LET after == compile_statement(compiler.ctx, compiler.program[compiler.next + 1])
       IN  compiler' = [compiler EXCEPT !.ctx = after, !.next = @ + 1,
                                        !.status = IF after.err THEN "err" ELSE @]
    /\ log' = [op |-> compiler.program[compiler.next + 1].kind]
    /\ UNCHANGED <<render_vars, first_units, later_units, osc, pcm>>

\* compile_inner, lines 262-268: the EventList is returned
CompileDone ==
    /\ pc = "client"
    /\ compiler # None
    /\ compiler.status = "compiling"
    /\ compiler.next = Len(compiler.program)
    /\ compiler' = [compiler EXCEPT
          !.ctx.events = SortByTime(compiler.ctx.events),
          !.status = "ok"]
    /\ log' = [op |-> "return",
               total_beats |-> RMax(compiler.ctx.cursor, compiler.ctx.max_cursor)]
    /\ UNCHANGED <<render_vars, first_units, later_units, osc, pcm>>

NextCompile ==
    \/ CollectTrackDefs
    \/ CompileStatement
    \/ CompileDone

SpecCompile == InitCompile /\ [][NextCompile]_vars

\* the calls of defined tracks that have returned so far
ReturnedCalls == IF compiler = None THEN <<>> ELSE compiler.ctx.g_calls

\* C40: a call of a defined track that returns leaves the caller's default
\* note length, current instrument, parameter bindings and current track
\* name as they were before the call, and the caller's cursor where it was
\* before the call if the call has no step, at that beat plus the step (in
\* beats of the caller's default note length) if it has one.
C40_CallerScopeKept ==
    \A i \in 1..Len(ReturnedCalls) :
        LET c == ReturnedCalls[i]
        IN  c.after =
                [c.before EXCEPT !.cursor =
                    IF c.step = None THEN c.before.cursor
                    ELSE RAdd(c.before.cursor,
                              duration_to_beats(Unwrap(c.step),
                                                c.before.default_note_length))]

\* a compiled program whose first two statements called b, which sets the
\* instrument and the note length and moves the cursor, without a step: both
\* calls started at beat 0 and their notes overlap there; a later call with a
\* step has moved the cursor
C40_Witness ==
    /\ compiler # None
    /\ compiler.status = "ok"
    /\ Len(ReturnedCalls) >= 7
    /\ \E i, j \in 1..Len(ReturnedCalls) :
          /\ i < j
          /\ ReturnedCalls[i].name = "b" /\ ReturnedCalls[j].name = "b"
          /\ ReturnedCalls[i].step = None
          /\ ReturnedCalls[i].before.cursor = <<0, 1>>
          /\ ReturnedCalls[j].before.cursor = <<0, 1>>
    /\ Cardinality({n \in 1..Len(compiler.ctx.events) :
                       /\ compiler.ctx.events[n].kind.kind = "Note"
                       /\ compiler.ctx.events[n].kind.pitch = "C2"
                       /\ compiler.ctx.events[n].time = <<0, 1>>}) = 2
    /\ compiler.ctx.cursor = <<8, 1>>

====
